---- MODULE Spec2Model ----
(***************************************************************************)
(* A model of the request-dispatch core of fondat-core:                    *)
(*   - fondat.http.Chain.handle        (the filter chain),                 *)
(*   - fondat.http.Application.handle  (the application shell),            *)
(*   - fondat.resource.authorize       (authorization of an operation).    *)
(*                                                                         *)
(* Spec      models one call of Application.handle, which builds a Chain   *)
(*           over the application's filters and runs it.                   *)
(* SpecAuth  models one call of authorize.                                 *)
(***************************************************************************)
EXTENDS Integers, Sequences, FiniteSets, TLC

\* Largest number of filters of an application that is explored.
MaxFilters == 3
\* Largest number of security requirements of an operation that is explored.
MaxReqs == 3
\* Longest request path that is explored, in characters.
MaxPathLen == 3
\* Largest number of parameters of an operation that is explored (SpecBind).
MaxParams == 2
\* Largest number of parameters of an operation in SpecDispatch.
MaxRouteParams == 1
\* Largest number of annotations of a parameter's type that is explored.
MaxAnns == 2
\* Largest number of chunks of a request body that is explored.
MaxChunks == 2
\* Largest content length of a response body that is explored.
MaxBodyLen == 11
\* Longest message of an error that is explored, in characters.
MaxDetailLen == 2

VARIABLES
    \* ---- Application.handle / Chain.handle ----
    filters,        \* self.filters: the kind of object each filter factory returns
    pc,             \* position in Application.handle / Chain.handle
    i,              \* index of the filter the forward loop is at
    instantiated,   \* indices of the filters that were called, f(request)
    preOut,         \* outcome of each filter's pre-phase ("-" while not run)
    rewind,         \* the rewind list (filter indices)
    r,              \* number of entries of reversed(rewind) already consumed
    response,       \* the local variable response of Chain.handle
    fed,            \* the response each resumed filter was sent with asend
    postOut,        \* outcome of each filter's resume step ("-" while not run)
    handlerCalls,   \* number of calls of the terminal handler
    log,            \* ordered call log of the chain
    chainExc,       \* the exception that left Chain.handle, if any
    chainRet,       \* the response Chain.handle returned, if any
    request,        \* the request: the filters whose pre-phase changed it, in order
    seenAt,         \* the request each factory (0: the handler) was called with
    omitted,        \* Chain was constructed without filters: self.filters is None
    err,            \* the fondat.error.Error the outer except clause caught
    errHandled,     \* the errors passed to error_handler, in order
    result,         \* the response Application.handle returned, if any
    raised,         \* the exception that left Application.handle, if any
    \* ---- authorize ----
    security,       \* the argument of authorize
    apc,            \* position in authorize
    ak,             \* index of the requirement the loop is at
    exception,      \* the local variable exception of authorize
    evaluated,      \* indices of the requirements whose authorize() was awaited
    authExc,        \* the exception that left authorize, if any
    \* ---- operation wrapper ----
    opc,            \* position in the wrapper of an operation
    bodyRuns,       \* number of times the operation's body was entered
    opExc,          \* the exception the caller of the operation received, if any
    opRet,          \* what the operation returned to its caller
    \* ---- Application._handle ----
    mount,          \* the path argument of Application.__init__
    path0,          \* request.path when _handle is called
    reqPath,        \* request.path
    reqMethod,      \* request.method
    dpc,            \* position in _handle
    segments,       \* the local variable segments
    seg,            \* index of the segment the walk is at
    attrLookups,    \* number of getattr(resource, segment) lookups of the walk
    itemLookups,    \* number of resource[segment] lookups of the walk
    lastLookup,     \* what the last _subordinate call found
    opAttr,         \* what getattr(resource, method, None) is ("-" before)
    opName,         \* the attribute name the operation was looked up under
    sig,            \* the operation's parameters and whether the request holds them
    pk,             \* index of the parameter the binding loop is at
    lastParam,      \* the source annotation and value of the parameter bound last
    params,         \* the local variable params (by parameter index)
    invoked,        \* number of calls of the operation
    callArgs,       \* the keyword arguments of the call of the operation
    dExc,           \* the exception that left _handle, if any
    dMsg,           \* the message (args[0]) of that exception, if the code sets one
    dRet,           \* what the operation returned to _handle
    lastValue,      \* the local variable param of the parameter bound last
    anns,           \* the annotations of the parameter whose source is selected
    reqBody,        \* request.body
    bodyParam,      \* index of the parameter annotated InBody, 0 when none is
    bodyHint,       \* whether that parameter's type is a Stream or another type
    bodyRead,       \* number of chunks of request.body that _handle consumed
    opResult,       \* what the operation returns for the request
    respBody,       \* response.body: its content type and content length
    respStatus,     \* response.status
    respHeaders,    \* response.headers
    \* ---- handle_error ----
    hpc,            \* position in handle_error
    herr,           \* the argument err
    hresp,          \* the response handle_error returned
    \* ---- two concurrent calls of Application.handle ----
    cfilters,       \* self.filters of the application both calls share
    cplan,          \* what the filters and the handler did in each call
    cpc,            \* position of each call in Chain.handle
    ci,             \* index of the filter each call's forward loop is at
    crewind,        \* the rewind list of each call
    cr,             \* how many entries of its rewind list each call resumed
    cresp,          \* the local variable response of each call
    cfed,           \* the response each filter instance was resumed with
    cresult,        \* the response each call returned
    \* ---- the decorator operation ----
    fpc,            \* position in operation
    fn,             \* the decorated function
    fmarker,        \* whether the function carries _fondat_operation
    fexc,           \* the exception operation raised
    fret,           \* what operation returned
    \* ---- a tree of container resources walked by _subordinate ----
    troot,          \* the root resource
    tpath,          \* the segments of the request path
    tmethod,        \* the lowercased request method
    tpc,            \* position in the walk
    tpos,           \* number of segments resolved
    tcur,           \* the local variable resource
    top,            \* what getattr(resource, method, None) gave
    texc,           \* the exception that ended the walk
    \* ---- an inner resource made by query / mutation ----
    ipc,            \* position of each way of calling the inner resource
    idecl,          \* the decorator applied, its arguments, the decorated method
    iouter,         \* the outer instance the inner resource is accessed on
    iinner,         \* the Inner instance each access created
    iself,          \* the instance the decorated method ran bound to
    iran,           \* the function each call ran
    iret            \* what each call returned or raised

chainVars == <<filters, pc, i, instantiated, preOut, rewind, r, response, fed,
               postOut, handlerCalls, log, chainExc, chainRet, request, seenAt, omitted>>
appVars == <<err, errHandled, result, raised>>
authVars == <<security, apc, ak, exception, evaluated, authExc>>
opVars == <<opc, bodyRuns, opExc, opRet>>
dispVars == <<mount, path0, reqPath, reqMethod, dpc, segments, seg, attrLookups,
              itemLookups, lastLookup, opAttr, opName, sig, pk, lastParam,
              params, invoked, callArgs, dExc, dMsg, dRet>>
bindVars == <<lastValue, anns, reqBody, bodyParam, bodyHint, bodyRead>>
respVars == <<opResult, respBody, respStatus, respHeaders>>
errVars == <<hpc, herr, hresp>>
concVars == <<cfilters, cplan, cpc, ci, crewind, cr, cresp, cfed, cresult>>
decoVars == <<fpc, fn, fmarker, fexc, fret>>
treeVars == <<troot, tpath, tmethod, tpc, tpos, tcur, top, texc>>
innerVars == <<ipc, idecl, iouter, iinner, iself, iran, iret>>
moreVars == <<treeVars, innerVars>>
otherVars == <<errVars, concVars, decoVars, moreVars>>
vars == <<chainVars, appVars, authVars, opVars, dispVars, bindVars, respVars,
          otherVars>>

----------------------------------------------------------------------------
\* Exceptions and responses

\* An exception instance: its class, the length of its args, the class and the
\* args length of its __cause__, and who raised it (0: the handler or the
\* application itself, n: filter or requirement n).
Exc(cls, nargs, cause, causeArgs, src) ==
    [cls |-> cls, nargs |-> nargs, cause |-> cause, causeArgs |-> causeArgs,
     src |-> src]

\* No exception (Python None where an exception may stand).
NoExc == Exc("None", 0, "None", 0, 0)

\* The classes of fondat.error that the code names.
Taxonomy == {"BadRequestError", "NotFoundError", "MethodNotAllowedError",
             "UnauthorizedError", "ForbiddenError", "InternalServerError"}

\* isinstance(e, fondat.error.Error)
IsError(e) == e.cls \in Taxonomy

\* The exceptions a filter or the handler (number src) may raise: each error
\* of the taxonomy raised directly, an InternalServerError raised from a
\* cause, and an exception outside the taxonomy with and without arguments.
Raisable(src) ==
    {Exc(c, 0, "None", 0, src) : c \in Taxonomy}
    \cup {Exc("InternalServerError", 0, "ValueError", 1, src),
          Exc("ValueError", 1, "None", 0, src),
          Exc("ValueError", 0, "None", 0, src)}

\* A response, identified by who produced it.
Resp(by, idx, e) == [by |-> by, idx |-> idx, err |-> e]
None == Resp("None", 0, NoExc)
PreResp(n) == Resp("pre", n, NoExc)
PostResp(n) == Resp("post", n, NoExc)
HandlerResp == Resp("handler", 0, NoExc)

\* The response of the error handler for an error.
ErrorResponse(e) == Resp("error_handler", 0, e)

Reverse(s) == [k \in 1..Len(s) |-> s[Len(s) + 1 - k]]

----------------------------------------------------------------------------
\* Chain.handle

FilterKinds == {"asyncgen", "coroutine", "other"}

\* What awaiting a filter can do, with the exception it raises if it raises.
Outcome(out, e) == [out |-> out, exc |-> e]
AsyncGenPre(n) ==
    {Outcome(o, NoExc) : o \in {"yield_none", "yield_resp", "stop"}}
    \cup {Outcome("raise", e) : e \in Raisable(n)}
CoroutinePre(n) ==
    {Outcome(o, NoExc) : o \in {"return_none", "return_resp"}}
    \cup {Outcome("raise", e) : e \in Raisable(n)}
AsyncGenPost(n) ==
    {Outcome(o, NoExc) : o \in {"yield_none", "yield_resp", "stop"}}
    \cup {Outcome("raise", e) : e \in Raisable(n)}
HandlerOutcomes ==
    {Outcome("return", NoExc)} \cup {Outcome("raise", e) : e \in Raisable(0)}

\* `if response:` -- a Response object is truthy, None is not.
Truthy(resp) == resp # None

\* The value the await of a filter's pre-phase leaves in response: the
\* assignment does not happen when the await raises.
PreValue(resp, n, out) ==
    IF out \in {"yield_resp", "return_resp"} THEN PreResp(n)
    ELSE IF out \in {"yield_none", "return_none"} THEN None
    ELSE resp

LoopBreaksNever(resp) == FALSE

\* `if response: break`
LoopBreaks(resp) == Truthy(resp)

CatchesAll(kind, out) == kind = "asyncgen" /\ out \in {"stop", "raise"}

\* `except StopAsyncIteration: pass` around the await of an asynchronous
\* generator; the await of a coroutine filter has no try statement.
Catches(kind, out) == kind = "asyncgen" /\ out = "stop"

RewindBeforeBreak(rw, n, out, resp) ==
    IF out \in {"yield_none", "yield_resp"} THEN Append(rw, n) ELSE rw

\* `rewind.append(filter)`: reached when __anext__ returned and the loop did
\* not break.
RewindAfterPre(rw, n, out, resp) ==
    IF out \in {"yield_none", "yield_resp"} /\ ~LoopBreaks(resp)
    THEN Append(rw, n) ELSE rw

AfterLoopAlwaysHandler(resp) == "handler"

\* `if not response: response = await self.handler(request)`
AfterLoop(resp) == IF Truthy(resp) THEN "rewind" ELSE "handler"

RewindOrderForward(rw) == rw

\* `for filter in reversed(rewind)`
RewindOrder(rw) == Reverse(rw)

ResumeResponseAlways(resp, n, out) ==
    IF out = "yield_resp" THEN PostResp(n)
    ELSE IF out = "yield_none" THEN None ELSE resp

\* `_response = await filter.asend(response)` and
\* `if _response: response = _response`
ResumeResponse(resp, n, out) ==
    LET _response == IF out = "yield_resp" THEN PostResp(n) ELSE None
    IN IF out \in {"yield_none", "yield_resp"} /\ Truthy(_response)
       THEN _response ELSE resp

\* An entry of the call log: what was awaited, which filter, what it did.
Event(ev, n, o) == [ev |-> ev, idx |-> n, out |-> o.out, exc |-> o.exc]

\* `for filter in (f(request) for f in self.filters)`: building the generator
\* expression takes iter(self.filters), which raises TypeError when
\* self.filters is None, the default of Chain.__init__.
IterRaises(none) == none

\* Application.handle is called: it builds the Chain and Chain.handle starts
\* with an empty rewind list and no response.
Start ==
    /\ pc = "idle"
    /\ rewind' = <<>>
    /\ response' = None
    /\ IF IterRaises(omitted)
       THEN /\ chainExc' = Exc("TypeError", 1, "None", 0, 0)
            /\ pc' = "chain_raised"
       ELSE /\ pc' = IF Len(filters) = 0 THEN AfterLoop(None) ELSE "pre"
            /\ UNCHANGED chainExc
    /\ UNCHANGED <<omitted, filters, i, instantiated, preOut, r, fed, postOut,
                   handlerCalls, log, chainRet, request, seenAt>>
    /\ UNCHANGED <<appVars, authVars, opVars, dispVars, bindVars, respVars, otherVars>>

FactoryArgSnapshot(req) == <<>>

\* `f(request)` in the generator expression: the factory is called, when the
\* loop asks for the next filter, with the request object as it is then.
FactoryArg(req) == req

\* One iteration of the forward loop: the generator expression calls the
\* filter factory, then the body awaits the filter's pre-phase, which may
\* change the request.
PreStep(kind, o, mutates) ==
    LET resp == PreValue(response, i, o.out)
        propagates == o.out = "raise" /\ ~Catches(kind, o.out)
        brk == o.out \in {"yield_none", "yield_resp", "return_none", "return_resp"}
               /\ LoopBreaks(resp)
    IN /\ instantiated' = instantiated \cup {i}
       /\ seenAt' = seenAt @@ (i :> FactoryArg(request))
       /\ request' = IF mutates THEN Append(request, i) ELSE request
       /\ preOut' = [preOut EXCEPT ![i] = o.out]
       /\ log' = Append(log, Event("pre", i, o))
       /\ IF propagates
          THEN /\ chainExc' = o.exc
               /\ pc' = "chain_raised"
               /\ UNCHANGED <<response, rewind, i>>
          ELSE /\ response' = resp
               /\ rewind' = IF kind = "asyncgen"
                            THEN RewindAfterPre(rewind, i, o.out, resp)
                            ELSE rewind
               /\ IF brk
                  THEN /\ pc' = AfterLoop(resp)
                       /\ i' = i
                  ELSE /\ i' = i + 1
                       /\ pc' = IF i + 1 > Len(filters) THEN AfterLoop(resp)
                                ELSE "pre"
               /\ UNCHANGED chainExc
       /\ UNCHANGED <<omitted, filters, r, fed, postOut, handlerCalls, chainRet>>
       /\ UNCHANGED <<appVars, authVars, opVars, dispVars, bindVars, respVars, otherVars>>

PreAsyncGen ==
    /\ pc = "pre"
    /\ filters[i] = "asyncgen"
    /\ \E o \in AsyncGenPre(i), mutates \in BOOLEAN :
         PreStep("asyncgen", o, mutates)

PreCoroutine ==
    /\ pc = "pre"
    /\ filters[i] = "coroutine"
    /\ \E o \in CoroutinePre(i), mutates \in BOOLEAN :
         PreStep("coroutine", o, mutates)

\* The factory returned neither an asynchronous generator nor a coroutine:
\* neither branch of the loop body applies.
PreOther ==
    /\ pc = "pre"
    /\ filters[i] = "other"
    /\ PreStep("other", Outcome("skip", NoExc), FALSE)

\* `response = await self.handler(request)`
Handler ==
    /\ pc = "handler"
    /\ \E o \in HandlerOutcomes :
         /\ handlerCalls' = handlerCalls + 1
         /\ seenAt' = seenAt @@ (0 :> request)
         /\ log' = Append(log, Event("handler", 0, o))
         /\ IF o.out = "raise"
            THEN /\ chainExc' = o.exc
                 /\ pc' = "chain_raised"
                 /\ UNCHANGED response
            ELSE /\ response' = HandlerResp
                 /\ pc' = "rewind"
                 /\ UNCHANGED chainExc
    /\ UNCHANGED <<omitted, filters, i, instantiated, preOut, rewind, r, fed, postOut,
                   chainRet, request>>
    /\ UNCHANGED <<appVars, authVars, opVars, dispVars, bindVars, respVars, otherVars>>

\* One iteration of the loop over reversed(rewind).
Resume ==
    /\ pc = "rewind"
    /\ r < Len(rewind)
    /\ LET n == RewindOrder(rewind)[r + 1]
       IN \E o \in AsyncGenPost(n) :
            /\ fed' = [fed EXCEPT ![n] = response]
            /\ postOut' = [postOut EXCEPT ![n] = o.out]
            /\ log' = Append(log, Event("resume", n, o))
            /\ IF o.out = "raise" /\ ~Catches("asyncgen", o.out)
               THEN /\ chainExc' = o.exc
                    /\ pc' = "chain_raised"
                    /\ UNCHANGED <<response, r>>
               ELSE /\ response' = ResumeResponse(response, n, o.out)
                    /\ r' = r + 1
                    /\ UNCHANGED <<chainExc, pc>>
    /\ UNCHANGED <<omitted, filters, i, instantiated, preOut, rewind, handlerCalls,
                   chainRet, request, seenAt>>
    /\ UNCHANGED <<appVars, authVars, opVars, dispVars, bindVars, respVars, otherVars>>

\* `return response` of Chain.handle, returned in turn by Application.handle.
ChainReturn ==
    /\ pc = "rewind"
    /\ r = Len(rewind)
    /\ chainRet' = response
    /\ result' = response
    /\ pc' = "done"
    /\ UNCHANGED <<omitted, filters, i, instantiated, preOut, rewind, r, response, fed,
                   postOut, handlerCalls, log, chainExc, request, seenAt>>
    /\ UNCHANGED <<err, errHandled, raised>>
    /\ UNCHANGED <<authVars, opVars, dispVars, bindVars, respVars, otherVars>>

----------------------------------------------------------------------------
\* Application.handle

\* The inner try statement: a fondat.error.Error is re-raised as it is, any
\* other exception is replaced by `InternalServerError from ex`.
Wrap(e) ==
    IF IsError(e) THEN e
    ELSE Exc("InternalServerError", 0, e.cls, e.nargs, 0)

\* `_logger.error(msg=err.__cause__.args[0], ...)` for an InternalServerError:
\* the exception that evaluating the argument raises, NoExc if it raises none.
LogFailure(e) ==
    IF e.cls # "InternalServerError" THEN NoExc
    ELSE IF e.cause = "None" THEN Exc("AttributeError", 1, "None", 0, 0)
    ELSE IF e.causeArgs = 0 THEN Exc("IndexError", 1, "None", 0, 0)
    ELSE NoExc

\* The exception that left the chain reaches the inner except clauses.
AppWrap ==
    /\ pc = "chain_raised"
    /\ err' = Wrap(chainExc)
    /\ pc' = "app_except"
    /\ UNCHANGED <<omitted, filters, i, instantiated, preOut, rewind, r, response, fed,
                   postOut, handlerCalls, log, chainExc, chainRet, request,
                   seenAt>>
    /\ UNCHANGED <<errHandled, result, raised>>
    /\ UNCHANGED <<authVars, opVars, dispVars, bindVars, respVars, otherVars>>

\* The outer except clause, when logging raises: the exception leaves
\* Application.handle.
AppLogRaises ==
    /\ pc = "app_except"
    /\ LogFailure(err) # NoExc
    /\ raised' = LogFailure(err)
    /\ pc' = "raised"
    /\ UNCHANGED <<omitted, filters, i, instantiated, preOut, rewind, r, response, fed,
                   postOut, handlerCalls, log, chainExc, chainRet, request,
                   seenAt>>
    /\ UNCHANGED <<err, errHandled, result>>
    /\ UNCHANGED <<authVars, opVars, dispVars, bindVars, respVars, otherVars>>

\* The outer except clause: `return await self.error_handler(err)`.
AppErrorHandler ==
    /\ pc = "app_except"
    /\ LogFailure(err) = NoExc
    /\ errHandled' = Append(errHandled, err)
    /\ result' = ErrorResponse(err)
    /\ pc' = "done"
    /\ UNCHANGED <<omitted, filters, i, instantiated, preOut, rewind, r, response, fed,
                   postOut, handlerCalls, log, chainExc, chainRet, request,
                   seenAt>>
    /\ UNCHANGED <<err, raised>>
    /\ UNCHANGED <<authVars, opVars, dispVars, bindVars, respVars, otherVars>>

----------------------------------------------------------------------------
\* authorize

\* What a requirement's authorize() does when awaited.
ReqOutcomes == {"ok", "forbidden", "unauthorized", "other"}

\* The names the module fondat.resource binds that an exception class could
\* be looked up under.
ModuleNames == {"ForbiddenError", "UnauthorizedError", "SecurityRequirement"}

\* `security or ()`
Requirements(sec) == IF sec.isNone THEN <<>> ELSE sec.reqs

\* The exception a requirement (number n) raises, by outcome.
ReqExc(out, n) ==
    IF out = "forbidden" THEN Exc("ForbiddenError", 0, "None", 0, n)
    ELSE IF out = "unauthorized" THEN Exc("UnauthorizedError", 0, "None", 0, n)
    ELSE IF out = "other" THEN Exc("RuntimeError", 1, "None", 0, n)
    ELSE NoExc

\* The body of `except ForbiddenError as fe`: the test names
\* ForbiddenException, which is looked up when the test is evaluated; a name
\* the module does not bind raises NameError inside the handler.
ForbiddenClause(exc, fe) ==
    IF "ForbiddenException" \notin ModuleNames
    THEN [raises |-> Exc("NameError", 1, "None", 0, fe.src), exception |-> exc]
    ELSE [raises |-> NoExc,
          exception |-> IF exc.cls # "ForbiddenError" THEN fe ELSE exc]

UnauthorizedClauseLast(exc, ue) == ue

\* The body of `except UnauthorizedError as ue`: `if not exception`.
UnauthorizedClause(exc, ue) == IF exc = NoExc THEN ue ELSE exc

\* authorize is called: `exception = None`.
AuthStart ==
    /\ apc = "idle"
    /\ apc' = "loop"
    /\ ak' = 1
    /\ exception' = NoExc
    /\ UNCHANGED <<security, evaluated, authExc>>
    /\ UNCHANGED <<chainVars, appVars, opVars, dispVars, bindVars, respVars, otherVars>>

\* The requirement's check passes: `return`.
AuthGrant ==
    /\ apc = "loop"
    /\ ak <= Len(Requirements(security))
    /\ Requirements(security)[ak] = "ok"
    /\ evaluated' = Append(evaluated, ak)
    /\ apc' = "granted"
    /\ UNCHANGED <<security, ak, exception, authExc>>
    /\ UNCHANGED <<chainVars, appVars, opVars, dispVars, bindVars, respVars, otherVars>>

\* The requirement's check raises ForbiddenError.
AuthForbidden ==
    /\ apc = "loop"
    /\ ak <= Len(Requirements(security))
    /\ Requirements(security)[ak] = "forbidden"
    /\ evaluated' = Append(evaluated, ak)
    /\ LET c == ForbiddenClause(exception, ReqExc("forbidden", ak))
       IN IF c.raises # NoExc
          THEN /\ authExc' = c.raises
               /\ apc' = "raised"
               /\ UNCHANGED <<ak, exception>>
          ELSE /\ exception' = c.exception
               /\ ak' = ak + 1
               /\ UNCHANGED <<apc, authExc>>
    /\ UNCHANGED security
    /\ UNCHANGED <<chainVars, appVars, opVars, dispVars, bindVars, respVars, otherVars>>

\* The requirement's check raises UnauthorizedError.
AuthUnauthorized ==
    /\ apc = "loop"
    /\ ak <= Len(Requirements(security))
    /\ Requirements(security)[ak] = "unauthorized"
    /\ evaluated' = Append(evaluated, ak)
    /\ exception' = UnauthorizedClause(exception, ReqExc("unauthorized", ak))
    /\ ak' = ak + 1
    /\ UNCHANGED <<security, apc, authExc>>
    /\ UNCHANGED <<chainVars, appVars, opVars, dispVars, bindVars, respVars, otherVars>>

AuthOtherSwallowed ==
    /\ apc = "loop"
    /\ ak <= Len(Requirements(security))
    /\ Requirements(security)[ak] = "other"
    /\ evaluated' = Append(evaluated, ak)
    /\ exception' = IF exception = NoExc THEN ReqExc("other", ak) ELSE exception
    /\ ak' = ak + 1
    /\ UNCHANGED <<security, apc, authExc>>
    /\ UNCHANGED <<chainVars, appVars, opVars, dispVars, bindVars, respVars, otherVars>>

\* The requirement's check raises another exception: the bare except clause
\* re-raises it.
AuthOther ==
    /\ apc = "loop"
    /\ ak <= Len(Requirements(security))
    /\ Requirements(security)[ak] = "other"
    /\ evaluated' = Append(evaluated, ak)
    /\ authExc' = ReqExc("other", ak)
    /\ apc' = "raised"
    /\ UNCHANGED <<security, ak, exception>>
    /\ UNCHANGED <<chainVars, appVars, opVars, dispVars, bindVars, respVars, otherVars>>

AuthEndAlwaysRaises ==
    /\ apc = "loop"
    /\ ak > Len(Requirements(security))
    /\ authExc' = IF exception # NoExc THEN exception
                  ELSE Exc("TypeError", 1, "None", 0, 0)
    /\ apc' = "raised"
    /\ UNCHANGED <<security, ak, exception, evaluated>>
    /\ UNCHANGED <<chainVars, appVars, opVars, dispVars, bindVars, respVars, otherVars>>

\* The loop is exhausted: `if exception: raise exception`, else the
\* coroutine returns.
AuthEnd ==
    /\ apc = "loop"
    /\ ak > Len(Requirements(security))
    /\ IF exception # NoExc
       THEN /\ authExc' = exception
            /\ apc' = "raised"
       ELSE /\ apc' = "granted"
            /\ UNCHANGED authExc
    /\ UNCHANGED <<security, ak, exception, evaluated>>
    /\ UNCHANGED <<chainVars, appVars, opVars, dispVars, bindVars, respVars, otherVars>>

AuthIdle ==
    /\ security = [isNone |-> TRUE, reqs |-> <<>>]
    /\ apc = "idle"
    /\ ak = 1
    /\ exception = NoExc
    /\ evaluated = <<>>
    /\ authExc = NoExc

ChainIdle ==
    /\ filters = <<>>
    /\ pc = "idle"
    /\ i = 1
    /\ instantiated = {}
    /\ preOut = [n \in 1..0 |-> "-"]
    /\ rewind = <<>>
    /\ r = 0
    /\ response = None
    /\ fed = [n \in 1..0 |-> None]
    /\ postOut = [n \in 1..0 |-> "-"]
    /\ handlerCalls = 0
    /\ log = <<>>
    /\ chainExc = NoExc
    /\ chainRet = None
    /\ request = <<>>
    /\ seenAt = <<>>
    /\ omitted = FALSE
    /\ err = NoExc
    /\ errHandled = <<>>
    /\ result = None
    /\ raised = NoExc

----------------------------------------------------------------------------
\* Application._handle (the dispatcher) and _subordinate
\*
\* A string is a sequence of one-character strings.

StartsWithAlways(str, prefix) == TRUE

\* str.startswith(prefix)
StartsWith(str, prefix) ==
    Len(str) >= Len(prefix) /\ SubSeq(str, 1, Len(prefix)) = prefix

\* str[n:]
Drop(str, n) == SubSeq(str, n + 1, Len(str))

\* str.rstrip("/")
RECURSIVE RStrip(_)
RStrip(str) ==
    IF str # <<>> /\ str[Len(str)] = "/"
    THEN RStrip(SubSeq(str, 1, Len(str) - 1))
    ELSE str

\* Application.__init__: `self.path = path.rstrip("/") + "/"`
MountPath(m) == RStrip(m) \o <<"/">>

\* str.split("/")
RECURSIVE Split(_)
Split(str) ==
    IF \A k \in 1..Len(str) : str[k] # "/"
    THEN <<str>>
    ELSE LET k == CHOOSE k \in 1..Len(str) :
                     str[k] = "/" /\ \A j \in 1..(k - 1) : str[j] # "/"
         IN <<SubSeq(str, 1, k - 1)>> \o Split(SubSeq(str, k + 1, Len(str)))

\* `segments = request.path.split("/") if request.path else ()`
Segments(str) == IF str = <<>> THEN <<>> ELSE Split(str)

\* str.lower(), on the letters of the methods explored.
LowerChar(c) ==
    CASE c = "G" -> "g" [] c = "E" -> "e" [] c = "T" -> "t"
      [] c = "P" -> "p" [] c = "U" -> "u" [] OTHER -> c
Lower(str) == [k \in 1..Len(str) |-> LowerChar(str[k])]

\* The requests and mount paths explored.
PathChars == {"/", "a"}
Paths == UNION {[1..n -> PathChars] : n \in 0..MaxPathLen}
Mounts == {<<"/">>, <<"/", "a">>}
Methods == {<<"G", "E", "T">>, <<"P", "u", "t">>}

\* The names the module fondat.http binds that a function could be looked up
\* under (its imports and its own top-level definitions).
HttpModuleNames ==
    {"asyncio", "fondat", "http", "inspect", "json", "logging", "multidict",
     "typing", "Callable", "Iterable", "MutableSequence", "Binary", "String",
     "get_codec", "Stream", "BytesStream", "is_optional", "is_subclass",
     "validate", "Annotated", "Any", "Literal", "_logger", "Headers",
     "Cookies", "Query", "Message", "Request", "Response", "Chain",
     "HTTPSecurityScheme", "HTTPBasicSecurityScheme", "APIKeySecurityScheme",
     "HeaderSecurityScheme", "CookieSecurityScheme", "_subordinate", "ParamIn",
     "_InString", "InQuery", "InHeader", "InCookie", "_InBody", "InBody",
     "handle_error", "Application"}

\* What getattr(resource, segment, None) is: nothing (no such attribute, or
\* None), a resource, an object that is not callable, a callable whose
\* declared return type is no resource, or a plain or coroutine function
\* whose declared return type is a resource.
AttrFound == {"resource", "noncallable", "callable_nohint", "callable_sync",
              "callable_async"}

\* What resource[segment] does: gives a resource, gives something else, or
\* raises TypeError, KeyError or IndexError.
ItemOutcomes == {"resource", "nonresource", "TypeError", "KeyError", "IndexError"}

\* The class of the exception _subordinate raises for an attribute that is
\* not None, "ok" when it returns a resource.
AttrResult(a) ==
    IF a = "resource" THEN "ok"
    ELSE IF a = "noncallable" THEN "NotFoundError"
    ELSE IF a = "callable_nohint" THEN "NotFoundError"
    ELSE IF "is_coroutine_function" \notin HttpModuleNames THEN "NameError"
    ELSE "ok"

\* The class of the exception _subordinate raises in the item lookup, "ok"
\* when it returns a resource: only TypeError is caught.
ItemResult(it) ==
    IF it = "resource" THEN "ok"
    ELSE IF it = "nonresource" THEN "NotFoundError"
    ELSE IF it = "TypeError" THEN "NotFoundError"
    ELSE it

\* An instance of an exception class as the dispatcher raises it.
Raised(cls) == Exc(cls, IF cls \in Taxonomy THEN 0 ELSE 1, "None", 0, 0)

NoLookup == [attr |-> "-", item |-> "-"]
NoParam == [idx |-> 0, source |-> "-", key |-> 0]
NoMsg == [text |-> "-", source |-> "-", key |-> 0]

\* A parameter of the operation: whether it has a default, whether its type
\* is optional, and whether the request holds a value for it in the source
\* its annotation selects.
ParamDecls == [hasDefault : BOOLEAN, optional : BOOLEAN, present : BOOLEAN]
Signatures(n) == UNION {[1..m -> ParamDecls] : m \in 0..n}

\* `response = Response()`: status 200, no headers, no body.
NoLength == [known |-> FALSE, n |-> 0]
NoRespBody == [ctype |-> "-", length |-> NoLength]
\* A value that is valid for a return type that is no Stream and is encoded
\* in one byte.
PlainResult ==
    [stream |-> FALSE, valid |-> TRUE, ctype |-> "codec",
     length |-> [known |-> TRUE, n |-> 1]]
RespIdle ==
    /\ opResult = PlainResult
    /\ respBody = NoRespBody
    /\ respStatus = 200
    /\ respHeaders = <<>>

DispIdle ==
    /\ mount = <<"/">>
    /\ path0 = <<"/">>
    /\ reqPath = <<"/">>
    /\ reqMethod = <<"G", "E", "T">>
    /\ dpc = "idle"
    /\ segments = <<>>
    /\ seg = 1
    /\ attrLookups = 0
    /\ itemLookups = 0
    /\ lastLookup = NoLookup
    /\ opAttr = "-"
    /\ opName = <<>>
    /\ sig = <<>>
    /\ pk = 1
    /\ lastParam = NoParam
    /\ params = <<>>
    /\ invoked = 0
    /\ callArgs = <<>>
    /\ dExc = NoExc
    /\ dMsg = NoMsg
    /\ dRet = "-"
    /\ lastValue = "-"
    /\ anns = <<>>
    /\ reqBody = [present |-> FALSE, chunks |-> <<>>]
    /\ bodyParam = 0
    /\ bodyHint = "value"
    /\ bodyRead = 0
    /\ RespIdle

\* handle_error is not called.
NoError == [cls |-> "None", args |-> <<>>]
NoResponse == [status |-> 0, headers |-> <<>>, body |-> <<>>]
ErrIdle ==
    /\ hpc = "idle"
    /\ herr = NoError
    /\ hresp = NoResponse

\* No concurrent calls.
ConcIdle ==
    /\ cfilters = <<>>
    /\ cplan = <<>>
    /\ cpc = <<>>
    /\ ci = <<>>
    /\ crewind = <<>>
    /\ cr = <<>>
    /\ cresp = <<>>
    /\ cfed = {}
    /\ cresult = <<>>

\* No function is being decorated.
DecoIdle ==
    /\ fpc = "idle"
    /\ fn = "-"
    /\ fmarker = "-"
    /\ fexc = NoError
    /\ fret = "-"

\* No other component of the program has run.
\* Python None where an object of the resource tree may stand.
NoneObj == [kind |-> "None", id |-> "-", map |-> <<>>]

\* No tree of containers is walked.
TreeIdle ==
    /\ troot = NoneObj
    /\ tpath = <<>>
    /\ tmethod = "-"
    /\ tpc = "idle"
    /\ tpos = 0
    /\ tcur = NoneObj
    /\ top = NoneObj
    /\ texc = "None"

\* No inner resource is called.
InnerIdle ==
    /\ ipc = <<>>
    /\ idecl = <<>>
    /\ iouter = "-"
    /\ iinner = <<>>
    /\ iself = <<>>
    /\ iran = <<>>
    /\ iret = <<>>

MoreIdle == TreeIdle /\ InnerIdle

OtherIdle == ErrIdle /\ ConcIdle /\ DecoIdle /\ MoreIdle

\* _handle is called: the prefix test, the removal of the prefix and the
\* split into segments.
DispStart ==
    /\ dpc = "idle"
    /\ IF ~StartsWith(reqPath, MountPath(mount))
       THEN /\ dExc' = Raised("NotFoundError")
            /\ dpc' = "raised"
            /\ UNCHANGED <<reqPath, segments>>
       ELSE /\ reqPath' = Drop(reqPath, Len(MountPath(mount)))
            /\ segments' = Segments(reqPath')
            /\ dpc' = IF Len(segments') = 0 THEN "lookup_op" ELSE "walk"
            /\ UNCHANGED dExc
    /\ UNCHANGED <<mount, path0, reqMethod, seg, attrLookups, itemLookups,
                   lastLookup, opAttr, opName, sig, pk, lastParam, params,
                   invoked, callArgs, dMsg, dRet>>
    /\ UNCHANGED <<chainVars, appVars, authVars, opVars, bindVars, respVars,
                   otherVars>>

\* The end of a call of _subordinate: the walk goes on with the resource
\* found, or the exception leaves _handle.
WalkResult(res) ==
    IF res = "ok"
    THEN /\ seg' = seg + 1
         /\ dpc' = IF seg + 1 > Len(segments) THEN "lookup_op" ELSE "walk"
         /\ UNCHANGED dExc
    ELSE /\ dExc' = Raised(res)
         /\ dpc' = "raised"
         /\ UNCHANGED seg

\* _subordinate for a segment that names an attribute of the resource.
WalkAttr ==
    /\ dpc = "walk"
    /\ \E a \in AttrFound :
         /\ attrLookups' = attrLookups + 1
         /\ lastLookup' = [attr |-> a, item |-> "-"]
         /\ WalkResult(AttrResult(a))
    /\ UNCHANGED <<mount, path0, reqPath, reqMethod, segments, itemLookups,
                   opAttr, opName, sig, pk, lastParam, params, invoked,
                   callArgs, dMsg, dRet>>
    /\ UNCHANGED <<chainVars, appVars, authVars, opVars, bindVars, respVars,
                   otherVars>>

\* _subordinate for a segment that names no attribute: resource[segment].
WalkItem ==
    /\ dpc = "walk"
    /\ \E it \in ItemOutcomes :
         /\ attrLookups' = attrLookups + 1
         /\ itemLookups' = itemLookups + 1
         /\ lastLookup' = [attr |-> "none", item |-> it]
         /\ WalkResult(ItemResult(it))
    /\ UNCHANGED <<mount, path0, reqPath, reqMethod, segments, opAttr, opName,
                   sig, pk, lastParam, params, invoked, callArgs, dMsg, dRet>>
    /\ UNCHANGED <<chainVars, appVars, authVars, opVars, bindVars, respVars,
                   otherVars>>

AfterBindInvokes(k, n) == "invoke"

\* The loop over the parameters comes before `await operation(**params)`:
\* where _handle goes on when parameter k is the next of n.
AfterBind(k, n) == IF k > n THEN "invoke" ELSE "bind"

\* What getattr(resource, method, None) is.
MethodAttrs == {"none", "nonoperation", "operation"}

IsOperationAnyAttr(a) == a # "none"

\* fondat.resource.is_operation
IsOperation(a) == a = "operation"

\* The lookup of the operation on the final resource.
OpLookup ==
    /\ dpc = "lookup_op"
    /\ opName' = Lower(reqMethod)
    /\ \E a \in MethodAttrs :
         /\ opAttr' = a
         /\ IF ~IsOperation(a)
            THEN /\ dExc' = Raised("MethodNotAllowedError")
                 /\ dpc' = "raised"
            ELSE /\ dpc' = AfterBind(1, Len(sig))
                 /\ UNCHANGED dExc
    /\ UNCHANGED <<mount, path0, reqPath, reqMethod, segments, seg, attrLookups,
                   itemLookups, lastLookup, sig, pk, lastParam, params,
                   invoked, callArgs, dMsg, dRet>>
    /\ UNCHANGED <<chainVars, appVars, authVars, opVars, bindVars, respVars,
                   otherVars>>

\* The source annotations of a parameter: none, or the first ParamIn among
\* them.
Annotations == {"none", "query", "header", "cookie", "body"}

\* in_param: the source selected for parameter number k and the key looked
\* up in it.  A parameter's name is its number; key 0 is a key that is no
\* parameter's name, and the body has no key.
InParam(ann, k, keyIsName) ==
    IF ann = "none" THEN [source |-> "query", key |-> k]
    ELSE IF ann = "body" THEN [source |-> "body", key |-> 0]
    ELSE [source |-> ann, key |-> IF keyIsName THEN k ELSE 0]

\* What in_param.get and validate do with a value that is present.
ValueOutcomes == {"valid", "invalid", "decode_error"}

RequiredNever(decl) == FALSE

\* `signature.parameters[name].default is inspect.Parameter.empty and not
\* is_optional(hint)`
Required(decl) == ~decl.hasDefault /\ ~decl.optional

BindAbsentOmitted(ps, k) == ps

\* `params[name] = None`
BindAbsent(ps, k) == ps @@ (k :> "None")

\* `params[name] = param`
BindValue(ps, k) == ps @@ (k :> "value")

\* str(in_param) behind the text of a BadRequestError.
ErrorText(text, in_param) ==
    [text |-> text, source |-> in_param.source, key |-> in_param.key]

\* The annotations that may follow a type in Annotated[...]: a ParamIn
\* (InQuery, InHeader, InCookie with a key that is the parameter's name or
\* not; InBody) or an object of another class.
AnnotationKinds == {"other", "query", "header", "cookie", "body"}
Annotation == [kind : AnnotationKinds, keyIsName : BOOLEAN]
AnnotationLists(n) == UNION {[1..m -> Annotation] : m \in 0..n}

\* isinstance(ann, ParamIn)
IsParamIn(a) == a.kind # "other"

\* No ParamIn among the annotations, or a type that is not Annotated.
NoAnnotation == [kind |-> "none", keyIsName |-> TRUE]

LastParamIn(args) ==
    IF \E k \in 1..Len(args) : IsParamIn(args[k])
    THEN args[CHOOSE k \in 1..Len(args) :
                 IsParamIn(args[k]) /\ \A j \in (k + 1)..Len(args) : ~IsParamIn(args[j])]
    ELSE NoAnnotation

\* `for ann in args[1:]: if isinstance(ann, ParamIn): in_param = ann; break`
FirstParamIn(args) ==
    IF \E k \in 1..Len(args) : IsParamIn(args[k])
    THEN args[CHOOSE k \in 1..Len(args) :
                 IsParamIn(args[k]) /\ \A j \in 1..(k - 1) : ~IsParamIn(args[j])]
    ELSE NoAnnotation

\* The annotations the loop can select, over every list of annotations.
SelectedSources == {FirstParamIn(args) : args \in AnnotationLists(MaxAnns)}

\* request.body: None, or a stream of chunks, each given by its length.
NoBody == [present |-> FALSE, chunks |-> <<>>]
ChunkLens == {0, 1}
Bodies ==
    {NoBody} \cup {[present |-> TRUE, chunks |-> c] :
                      c \in UNION {[1..m -> ChunkLens] : m \in 0..MaxChunks}}

\* len(value) after `async for b in request.body: value.extend(b)`
RECURSIVE SumLens(_)
SumLens(chunks) ==
    IF chunks = <<>> THEN 0 ELSE chunks[1] + SumLens(Tail(chunks))
BodyLen(body) == IF body.present THEN SumLens(body.chunks) ELSE 0

BodyGetDecodesEmpty(hint, body) ==
    IF hint = "stream" THEN (IF body.present THEN "stream" ELSE "None")
    ELSE "bytes"

BodyGetRequiresStream(hint, body) ==
    IF hint = "stream" THEN "stream"
    ELSE IF BodyLen(body) = 0 THEN "None" ELSE "bytes"

\* _InBody.get up to the decoding: the request body itself for a Stream
\* ("None" when the request has none), None for an empty buffer, the
\* buffered bytes otherwise.
BodyGet(hint, body) ==
    IF hint = "stream" THEN (IF body.present THEN "stream" ELSE "None")
    ELSE IF BodyLen(body) = 0 THEN "None" ELSE "bytes"

\* _InString.get up to the decoding: None when the key is absent.
StringGet(decl) == IF decl.present THEN "string" ELSE "None"

\* The local variable param after in_param.get and validate, v being what
\* the codec and validate do with a value that is present.
ParamValue(got, v) ==
    IF got = "None" THEN "None"
    ELSE IF got = "stream" THEN (IF v = "invalid" THEN "invalid" ELSE "stream")
    ELSE v

ValueFailsOnDecodeOnly(param) == param = "decode_error"

\* The (TypeError, ValueError) of the codec and of validate.
ValueFails(param) == param \in {"invalid", "decode_error"}

\* `params[name] = param` for the request body passed as it is.
BindStream(ps, k) == ps @@ (k :> "request.body")

\* One pass of the loop over the hinted parameters; sig lists them in the
\* order of their declaration.
BindParam ==
    /\ dpc = "bind"
    /\ \E a \in SelectedSources, v \in ValueOutcomes :
         /\ (a.kind = "body") <=> (pk = bodyParam)
         /\ LET in_param == InParam(a.kind, pk, a.keyIsName)
                got == IF a.kind = "body" THEN BodyGet(bodyHint, reqBody)
                       ELSE StringGet(sig[pk])
                param == ParamValue(got, v)
                fails == IF param = "None" THEN Required(sig[pk])
                         ELSE ValueFails(param)
                text == IF param = "None" THEN "expecting value"
                        ELSE IF param = "invalid" THEN "validation error"
                        ELSE "decode error"
            IN /\ lastParam' = [idx |-> pk, source |-> in_param.source,
                                key |-> in_param.key]
               /\ lastValue' = param
               /\ bodyRead' = IF a.kind = "body" /\ bodyHint # "stream" /\ reqBody.present
                              THEN Len(reqBody.chunks)
                              ELSE bodyRead
               /\ IF fails
                  THEN /\ dExc' = Raised("BadRequestError")
                       /\ dMsg' = ErrorText(text, in_param)
                       /\ dpc' = "raised"
                       /\ UNCHANGED <<params, pk>>
                  ELSE /\ params' = IF param = "None" THEN BindAbsent(params, pk)
                                    ELSE IF param = "stream" THEN BindStream(params, pk)
                                    ELSE BindValue(params, pk)
                       /\ pk' = pk + 1
                       /\ dpc' = AfterBind(pk + 1, Len(sig))
                       /\ UNCHANGED <<dExc, dMsg>>
    /\ UNCHANGED <<mount, path0, reqPath, reqMethod, segments, seg, attrLookups,
                   itemLookups, lastLookup, opAttr, opName, sig, invoked,
                   callArgs, dRet>>
    /\ UNCHANGED <<anns, reqBody, bodyParam, bodyHint>>
    /\ UNCHANGED <<chainVars, appVars, authVars, opVars, respVars, otherVars>>

\* The selection of in_param for one parameter, from its annotations.
SelectSource ==
    /\ dpc = "select"
    /\ LET a == FirstParamIn(anns)
           in_param == InParam(a.kind, pk, a.keyIsName)
       IN lastParam' = [idx |-> pk, source |-> in_param.source,
                        key |-> in_param.key]
    /\ dpc' = "selected"
    /\ UNCHANGED <<mount, path0, reqPath, reqMethod, segments, seg, attrLookups,
                   itemLookups, lastLookup, opAttr, opName, sig, pk, params,
                   invoked, callArgs, dExc, dMsg, dRet>>
    /\ UNCHANGED <<lastValue, anns, reqBody, bodyParam, bodyHint, bodyRead>>
    /\ UNCHANGED <<chainVars, appVars, authVars, opVars, respVars, otherVars>>

\* What `await operation(**params)` does: the wrapper of the operation and
\* its body.
OperationOutcomes ==
    {Outcome("return", NoExc),
     Outcome("raise", Exc("ForbiddenError", 0, "None", 0, 0)),
     Outcome("raise", Exc("ValueError", 1, "None", 0, 0)),
     Outcome("raise", Exc("ValueError", 0, "None", 0, 0))}

\* `result = await operation(**params)`
OpInvoke ==
    /\ dpc = "invoke"
    /\ invoked' = invoked + 1
    /\ callArgs' = params
    /\ \E o \in OperationOutcomes :
         IF o.out = "raise"
         THEN /\ dExc' = o.exc
              /\ dpc' = "raised"
              /\ UNCHANGED dRet
         ELSE /\ dRet' = "value"
              /\ dpc' = "op_returned"
              /\ UNCHANGED dExc
    /\ UNCHANGED <<mount, path0, reqPath, reqMethod, segments, seg, attrLookups,
                   itemLookups, lastLookup, opAttr, opName, sig, pk, lastParam,
                   params, dMsg>>
    /\ UNCHANGED <<chainVars, appVars, authVars, opVars, bindVars, respVars,
                   otherVars>>

\* What an operation returns: whether its declared return type is a Stream,
\* whether the value is valid for that type, and the content type and the
\* content length of the body made of it: those of the codec and of the
\* encoded bytes, or those of the returned stream, whose length may be
\* unknown (content_length None, here NoLength).
KnownLengths == [known : {TRUE}, n : 0..MaxBodyLen]
OpResults ==
    [stream : {FALSE}, valid : BOOLEAN, ctype : {"codec"}, length : KnownLengths]
    \cup [stream : {TRUE}, valid : BOOLEAN, ctype : {"stream"},
          length : KnownLengths \cup {NoLength}]

\* str(n) of a natural number.
Digit(d) ==
    CASE d = 0 -> "0" [] d = 1 -> "1" [] d = 2 -> "2" [] d = 3 -> "3"
      [] d = 4 -> "4" [] d = 5 -> "5" [] d = 6 -> "6" [] d = 7 -> "7"
      [] d = 8 -> "8" [] d = 9 -> "9"
RECURSIVE Str(_)
Str(n) == IF n < 10 THEN <<Digit(n)>> ELSE Str(n \div 10) \o <<Digit(n % 10)>>

ValidateResultSkipped(res) == NoExc

\* `validate(result, return_hint)`: the exception it raises for a value that
\* is not valid for the declared return type, NoExc if it raises none.
ValidateResult(res) == IF res.valid THEN NoExc ELSE Raised("ValueError")

StatusUnchanged(length, status) == status

\* `if response.body.content_length == 0: response.status = NO_CONTENT`
StatusFor(length, status) ==
    IF length.known /\ length.n = 0 THEN 204 ELSE status

ContentLengthWhenKnown(length) ==
    IF length.known THEN "Content-Length" :> Str(length.n) ELSE <<>>

\* The Content-Length header _handle sets, if any.
ContentLength(length) ==
    IF length.known /\ length.n # 0 THEN "Content-Length" :> Str(length.n)
    ELSE <<>>

\* The validation of the result, the response body and its headers.
Respond ==
    /\ dpc = "op_returned"
    /\ IF ValidateResult(opResult) # NoExc
       THEN /\ dExc' = ValidateResult(opResult)
            /\ dpc' = "raised"
            /\ UNCHANGED <<respBody, respStatus, respHeaders>>
       ELSE /\ respBody' = [ctype |-> opResult.ctype, length |-> opResult.length]
            /\ respHeaders' = ("Content-Type" :> respBody'.ctype)
                              @@ ContentLength(respBody'.length)
            /\ respStatus' = StatusFor(respBody'.length, respStatus)
            /\ dpc' = "returned"
            /\ UNCHANGED dExc
    /\ UNCHANGED <<mount, path0, reqPath, reqMethod, segments, seg, attrLookups,
                   itemLookups, lastLookup, opAttr, opName, sig, pk, lastParam,
                   params, invoked, callArgs, dMsg, dRet>>
    /\ UNCHANGED <<opResult, bindVars>>
    /\ UNCHANGED <<chainVars, appVars, authVars, opVars, otherVars>>

----------------------------------------------------------------------------
\* handle_error, the default error handler
\*
\* A text is a sequence of characters, each a string; "U+00E9" is one
\* character outside ASCII.

\* err.status of the classes of fondat.error.
StatusOf(cls) ==
    CASE cls = "BadRequestError" -> 400
      [] cls = "UnauthorizedError" -> 401
      [] cls = "ForbiddenError" -> 403
      [] cls = "NotFoundError" -> 404
      [] cls = "MethodNotAllowedError" -> 405
      [] cls = "InternalServerError" -> 500

\* err.__doc__, the docstring of the class, as one character.
Doc(cls) == <<cls>>

\* The errors handle_error is called with: a class of the taxonomy raised
\* without arguments, or with a message.
DetailChars == {"a", "\"", "U+00E9"}
Details == UNION {[1..n -> DetailChars] : n \in 0..MaxDetailLen}
Errors == [cls : Taxonomy, args : {<<>>} \cup {<<d>> : d \in Details}]

DetailAlwaysDoc(e) == Doc(e.cls)

\* `err.args[0] if err.args else err.__doc__`
Detail(e) == IF e.args # <<>> THEN e.args[1] ELSE Doc(e.cls)

\* json.dumps of a string: quotes and backslashes are escaped, and so is
\* every character outside ASCII (ensure_ascii).
EscapeChar(c) ==
    CASE c = "\"" -> <<"\\", "\"">>
      [] c = "\\" -> <<"\\", "\\">>
      [] c = "U+00E9" -> <<"\\", "u", "0", "0", "e", "9">>
      [] OTHER -> <<c>>
RECURSIVE Escape(_)
Escape(str) ==
    IF str = <<>> THEN <<>> ELSE EscapeChar(str[1]) \o Escape(Tail(str))
JsonString(str) == <<"\"">> \o Escape(str) \o <<"\"">>

\* json.dumps(dict(error=status, detail=detail))
JsonDumps(status, detail) ==
    <<"{", "\"", "e", "r", "r", "o", "r", "\"", ":", " ">> \o Str(status)
    \o <<",", " ", "\"", "d", "e", "t", "a", "i", "l", "\"", ":", " ">>
    \o JsonString(detail) \o <<"}">>

\* str.encode(): the UTF-8 bytes of a text, an ASCII character being one
\* byte and U+00E9 two.
EncodeChar(c) == IF c = "U+00E9" THEN <<"0xC3", "0xA9">> ELSE <<c>>
RECURSIVE Encode(_)
Encode(str) ==
    IF str = <<>> THEN <<>> ELSE EncodeChar(str[1]) \o Encode(Tail(str))

HandleError ==
    /\ hpc = "idle"
    /\ LET body == Encode(JsonDumps(StatusOf(herr.cls), Detail(herr)))
       IN hresp' = [status |-> StatusOf(herr.cls),
                    headers |-> ("content-type" :> "application/json")
                                @@ ("content-length" :> Str(Len(body))),
                    body |-> body]
    /\ hpc' = "returned"
    /\ UNCHANGED herr
    /\ UNCHANGED <<chainVars, appVars, authVars, opVars, dispVars, bindVars,
                   respVars, concVars, decoVars, moreVars>>

----------------------------------------------------------------------------
\* The wrapper of an operation (fondat.resource.operation)

\* What the body of the operation does when awaited.
BodyOutcomes ==
    {Outcome("return", NoExc),
     Outcome("raise", Exc("NotFoundError", 0, "None", 0, 0)),
     Outcome("raise", Exc("ValueError", 1, "None", 0, 0))}

OpIdle ==
    /\ opc = "idle"
    /\ bodyRuns = 0
    /\ opExc = NoExc
    /\ opRet = "-"

\* The operation is called: the wrapper reads the operation's descriptor and
\* enters the context, the timer and the counter.
OpCall ==
    /\ opc = "idle"
    /\ opc' = "authorize"
    /\ UNCHANGED <<bodyRuns, opExc, opRet>>
    /\ UNCHANGED <<chainVars, appVars, authVars, dispVars, bindVars, respVars, otherVars>>

\* `await authorize(operation.security)` begins.
OpAuthorize ==
    /\ opc = "authorize"
    /\ AuthStart

\* authorize raised: the exception leaves the wrapper through the three
\* context managers.
OpAuthRaised ==
    /\ opc = "authorize"
    /\ apc = "raised"
    /\ opExc' = authExc
    /\ opc' = "raised"
    /\ UNCHANGED <<bodyRuns, opRet>>
    /\ UNCHANGED <<chainVars, appVars, authVars, dispVars, bindVars, respVars, otherVars>>

OpBodyUnawaited ==
    /\ opc = "authorize"
    /\ apc # "idle"
    /\ \E o \in BodyOutcomes :
         /\ bodyRuns' = bodyRuns + 1
         /\ IF o.out = "raise"
            THEN opExc' = o.exc /\ opc' = "raised" /\ UNCHANGED opRet
            ELSE opRet' = "value" /\ opc' = "returned" /\ UNCHANGED opExc
    /\ UNCHANGED <<chainVars, appVars, authVars, dispVars, bindVars, respVars, otherVars>>

\* authorize returned: `return await wrapped(*args, **kwargs)`.
OpBody ==
    /\ opc = "authorize"
    /\ apc = "granted"
    /\ \E o \in BodyOutcomes :
         /\ bodyRuns' = bodyRuns + 1
         /\ IF o.out = "raise"
            THEN opExc' = o.exc /\ opc' = "raised" /\ UNCHANGED opRet
            ELSE opRet' = "value" /\ opc' = "returned" /\ UNCHANGED opExc
    /\ UNCHANGED <<chainVars, appVars, authVars, dispVars, bindVars, respVars, otherVars>>

----------------------------------------------------------------------------
\* Specification of Application.handle

FilterLists == UNION {[1..n -> FilterKinds] : n \in 0..MaxFilters}

Init ==
    /\ filters \in FilterLists
    /\ pc = "idle"
    /\ i = 1
    /\ instantiated = {}
    /\ preOut = [n \in 1..Len(filters) |-> "-"]
    /\ rewind = <<>>
    /\ r = 0
    /\ response = None
    /\ fed = [n \in 1..Len(filters) |-> None]
    /\ postOut = [n \in 1..Len(filters) |-> "-"]
    /\ handlerCalls = 0
    /\ log = <<>>
    /\ chainExc = NoExc
    /\ chainRet = None
    /\ request = <<>>
    /\ seenAt = <<>>
    /\ omitted = FALSE
    /\ err = NoExc
    /\ errHandled = <<>>
    /\ result = None
    /\ raised = NoExc
    /\ AuthIdle
    /\ OpIdle
    /\ DispIdle
    /\ OtherIdle

Next ==
    \/ Start
    \/ PreAsyncGen
    \/ PreCoroutine
    \/ PreOther
    \/ Handler
    \/ Resume
    \/ ChainReturn
    \/ AppWrap
    \/ AppLogRaises
    \/ AppErrorHandler

Spec == Init /\ [][Next]_vars

----------------------------------------------------------------------------
\* Specification of a Chain constructed directly

\* Chain(filters=..., handler=...) with a sequence of filters, or
\* Chain(handler=...) with the argument omitted.
InitChain ==
    /\ omitted \in BOOLEAN
    /\ filters \in (IF omitted THEN {<<>>} ELSE FilterLists)
    /\ pc = "idle"
    /\ i = 1
    /\ instantiated = {}
    /\ preOut = [n \in 1..Len(filters) |-> "-"]
    /\ rewind = <<>>
    /\ r = 0
    /\ response = None
    /\ fed = [n \in 1..Len(filters) |-> None]
    /\ postOut = [n \in 1..Len(filters) |-> "-"]
    /\ handlerCalls = 0
    /\ log = <<>>
    /\ chainExc = NoExc
    /\ chainRet = None
    /\ request = <<>>
    /\ seenAt = <<>>
    /\ err = NoExc
    /\ errHandled = <<>>
    /\ result = None
    /\ raised = NoExc
    /\ AuthIdle
    /\ OpIdle
    /\ DispIdle
    /\ OtherIdle

NextChain ==
    \/ Start
    \/ PreAsyncGen
    \/ PreCoroutine
    \/ PreOther
    \/ Handler
    \/ Resume
    \/ ChainReturn

SpecChain == InitChain /\ [][NextChain]_vars

----------------------------------------------------------------------------
\* Specification of authorize

SecurityArgs ==
    {[isNone |-> TRUE, reqs |-> <<>>]}
    \cup {[isNone |-> FALSE, reqs |-> q] :
            q \in UNION {[1..n -> ReqOutcomes] : n \in 0..MaxReqs}}

InitAuth ==
    /\ security \in SecurityArgs
    /\ apc = "idle"
    /\ ak = 1
    /\ exception = NoExc
    /\ evaluated = <<>>
    /\ authExc = NoExc
    /\ ChainIdle
    /\ OpIdle
    /\ DispIdle
    /\ OtherIdle

NextAuth ==
    \/ AuthStart
    \/ AuthGrant
    \/ AuthForbidden
    \/ AuthUnauthorized
    \/ AuthOther
    \/ AuthEnd

SpecAuth == InitAuth /\ [][NextAuth]_vars

----------------------------------------------------------------------------
\* Specification of a call of an operation

InitOp ==
    /\ security \in SecurityArgs
    /\ apc = "idle"
    /\ ak = 1
    /\ exception = NoExc
    /\ evaluated = <<>>
    /\ authExc = NoExc
    /\ ChainIdle
    /\ OpIdle
    /\ DispIdle
    /\ OtherIdle

NextOp ==
    \/ OpCall
    \/ OpAuthorize
    \/ AuthGrant
    \/ AuthForbidden
    \/ AuthUnauthorized
    \/ AuthOther
    \/ AuthEnd
    \/ OpAuthRaised
    \/ OpBody

SpecOp == InitOp /\ [][NextOp]_vars

----------------------------------------------------------------------------
\* Specification of Application._handle over requests and mount paths

\* The locals of _handle when it is called.
DispOwn ==
    /\ reqPath = path0
    /\ dpc = "idle"
    /\ segments = <<>>
    /\ seg = 1
    /\ attrLookups = 0
    /\ itemLookups = 0
    /\ lastLookup = NoLookup
    /\ opAttr = "-"
    /\ opName = <<>>
    /\ pk = 1
    /\ lastParam = NoParam
    /\ params = <<>>
    /\ invoked = 0
    /\ callArgs = <<>>
    /\ dExc = NoExc
    /\ dMsg = NoMsg
    /\ dRet = "-"
    /\ lastValue = "-"
    /\ anns = <<>>
    /\ bodyRead = 0

\* The same, and the rest of the program idle.
DispLocals ==
    /\ DispOwn
    /\ ChainIdle
    /\ AuthIdle
    /\ OpIdle
    /\ OtherIdle

\* The same, for an operation that returns a valid value of a type that is
\* no Stream.
DispFresh == DispLocals /\ RespIdle

\* An operation without a parameter annotated InBody, a request without body.
DispInit(mounts, paths, sigs) ==
    /\ mount \in mounts
    /\ path0 \in paths
    /\ reqMethod \in Methods
    /\ sig \in sigs
    /\ reqBody = NoBody
    /\ bodyParam = 0
    /\ bodyHint = "value"
    /\ DispFresh

InitDispatch == DispInit(Mounts, Paths, Signatures(MaxRouteParams))

NextDispatch ==
    \/ DispStart
    \/ WalkAttr
    \/ WalkItem
    \/ OpLookup
    \/ BindParam
    \/ OpInvoke
    \/ Respond

SpecDispatch == InitDispatch /\ [][NextDispatch]_vars

\* Specification of the parameter binding of Application._handle: requests
\* to the root and to one resource below it, operations of up to MaxParams
\* parameters.
InitBind == DispInit({<<"/">>}, {<<"/">>, <<"/", "a">>}, Signatures(MaxParams))

SpecBind == InitBind /\ [][NextDispatch]_vars

\* Specification of the selection of a parameter's source from its
\* annotations: one pass of the loop up to the call of in_param.get.
InitSource ==
    /\ mount = <<"/">>
    /\ path0 = <<"/">>
    /\ reqMethod = <<"G", "E", "T">>
    /\ sig = <<>>
    /\ reqBody = NoBody
    /\ bodyParam = 0
    /\ bodyHint = "value"
    /\ reqPath = path0
    /\ dpc = "select"
    /\ segments = <<>>
    /\ seg = 1
    /\ attrLookups = 0
    /\ itemLookups = 0
    /\ lastLookup = NoLookup
    /\ opAttr = "operation"
    /\ opName = <<"g", "e", "t">>
    /\ pk \in 1..MaxParams
    /\ lastParam = NoParam
    /\ params = <<>>
    /\ invoked = 0
    /\ callArgs = <<>>
    /\ dExc = NoExc
    /\ dMsg = NoMsg
    /\ dRet = "-"
    /\ lastValue = "-"
    /\ anns \in AnnotationLists(MaxAnns)
    /\ bodyRead = 0
    /\ RespIdle
    /\ ChainIdle
    /\ AuthIdle
    /\ OpIdle
    /\ OtherIdle

NextSource == SelectSource

SpecSource == InitSource /\ [][NextSource]_vars

\* Specification of the binding of a parameter annotated InBody: requests to
\* the root with and without a body, operations one of whose parameters is
\* annotated InBody.
InitBody ==
    /\ mount = <<"/">>
    /\ path0 \in {<<"/">>, <<"/", "a">>}
    /\ reqMethod \in Methods
    /\ sig \in Signatures(MaxRouteParams)
    /\ reqBody \in Bodies
    /\ bodyParam \in 1..Len(sig)
    /\ bodyHint \in {"value", "stream"}
    /\ DispFresh

SpecBody == InitBody /\ [][NextDispatch]_vars

\* Specification of the response of Application._handle: requests to the
\* root and to one resource below it, over what the operation returns.
InitRespond ==
    /\ mount = <<"/">>
    /\ path0 \in {<<"/">>, <<"/", "a">>}
    /\ reqMethod \in Methods
    /\ sig \in Signatures(MaxRouteParams)
    /\ reqBody = NoBody
    /\ bodyParam = 0
    /\ bodyHint = "value"
    /\ opResult \in OpResults
    /\ respBody = NoRespBody
    /\ respStatus = 200
    /\ respHeaders = <<>>
    /\ DispLocals

SpecRespond == InitRespond /\ [][NextDispatch]_vars

\* `result = await operation(**params)` begins: the wrapper of the
\* operation is entered with the bound parameters.
DispCall ==
    /\ dpc = "invoke"
    /\ opc = "idle"
    /\ invoked' = invoked + 1
    /\ callArgs' = params
    /\ dpc' = "awaiting"
    /\ opc' = "authorize"
    /\ UNCHANGED <<mount, path0, reqPath, reqMethod, segments, seg, attrLookups,
                   itemLookups, lastLookup, opAttr, opName, sig, pk, lastParam,
                   params, dExc, dMsg, dRet>>
    /\ UNCHANGED <<bodyRuns, opExc, opRet>>
    /\ UNCHANGED <<chainVars, appVars, authVars, bindVars, respVars, otherVars>>

\* The await ends: with the value the wrapper returned, or with the
\* exception that left it.
DispResume ==
    /\ dpc = "awaiting"
    /\ opc \in {"returned", "raised"}
    /\ IF opc = "raised"
       THEN /\ dExc' = opExc
            /\ dpc' = "raised"
            /\ UNCHANGED dRet
       ELSE /\ dRet' = opRet
            /\ dpc' = "op_returned"
            /\ UNCHANGED dExc
    /\ UNCHANGED <<mount, path0, reqPath, reqMethod, segments, seg, attrLookups,
                   itemLookups, lastLookup, opAttr, opName, sig, pk, lastParam,
                   params, invoked, callArgs, dMsg>>
    /\ UNCHANGED <<chainVars, appVars, authVars, opVars, bindVars, respVars,
                   otherVars>>

\* Specification of Application._handle with the wrapper of the operation
\* and authorize: a request to the root resource, operations of up to
\* MaxRouteParams parameters, every list of security requirements.
InitPipeline ==
    /\ mount = <<"/">>
    /\ path0 = <<"/">>
    /\ reqMethod = <<"G", "E", "T">>
    /\ sig \in Signatures(MaxRouteParams)
    /\ reqBody = NoBody
    /\ bodyParam = 0
    /\ bodyHint = "value"
    /\ DispOwn
    /\ RespIdle
    /\ security \in SecurityArgs
    /\ apc = "idle"
    /\ ak = 1
    /\ exception = NoExc
    /\ evaluated = <<>>
    /\ authExc = NoExc
    /\ ChainIdle
    /\ OpIdle
    /\ OtherIdle

NextPipeline ==
    \/ DispStart
    \/ OpLookup
    \/ BindParam
    \/ DispCall
    \/ OpAuthorize
    \/ AuthGrant
    \/ AuthForbidden
    \/ AuthUnauthorized
    \/ AuthOther
    \/ AuthEnd
    \/ OpAuthRaised
    \/ OpBody
    \/ DispResume
    \/ Respond

SpecPipeline == InitPipeline /\ [][NextPipeline]_vars

\* Chain.handle awaits self.handler(request): _handle is called.
HandlerEnter ==
    /\ pc = "handler"
    /\ dpc = "waiting"
    /\ dpc' = "idle"
    /\ handlerCalls' = handlerCalls + 1
    /\ seenAt' = seenAt @@ (0 :> request)
    /\ UNCHANGED <<omitted, filters, pc, i, instantiated, preOut, rewind, r, response,
                   fed, postOut, log, chainExc, chainRet, request>>
    /\ UNCHANGED <<mount, path0, reqPath, reqMethod, segments, seg, attrLookups,
                   itemLookups, lastLookup, opAttr, opName, sig, pk, lastParam,
                   params, invoked, callArgs, dExc, dMsg, dRet>>
    /\ UNCHANGED <<appVars, authVars, opVars, bindVars, respVars, otherVars>>

\* _handle ends: its response becomes the response of the chain, or its
\* exception leaves Chain.handle.
HandlerLeave ==
    /\ pc = "handler"
    /\ dpc \in {"raised", "returned"}
    /\ LET o == IF dpc = "raised" THEN Outcome("raise", dExc)
                ELSE Outcome("return", NoExc)
       IN /\ log' = Append(log, Event("handler", 0, o))
          /\ IF o.out = "raise"
             THEN /\ chainExc' = o.exc
                  /\ pc' = "chain_raised"
                  /\ UNCHANGED response
             ELSE /\ response' = HandlerResp
                  /\ pc' = "rewind"
                  /\ UNCHANGED chainExc
    /\ UNCHANGED <<omitted, filters, i, instantiated, preOut, rewind, r, fed, postOut,
                   handlerCalls, chainRet, request, seenAt>>
    /\ UNCHANGED <<appVars, authVars, opVars, dispVars, bindVars, respVars,
                   otherVars>>

\* Specification of Application.handle with _handle as the handler of the
\* chain: no filters, a request to the root resource or below it, an
\* operation without parameters, every value the operation can return.
InitHandle ==
    /\ ChainIdle
    /\ mount = <<"/">>
    /\ path0 \in {<<"/">>, <<"/", "a">>}
    /\ reqMethod \in Methods
    /\ sig = <<>>
    /\ reqBody = NoBody
    /\ bodyParam = 0
    /\ bodyHint = "value"
    /\ reqPath = path0
    /\ dpc = "waiting"
    /\ segments = <<>>
    /\ seg = 1
    /\ attrLookups = 0
    /\ itemLookups = 0
    /\ lastLookup = NoLookup
    /\ opAttr = "-"
    /\ opName = <<>>
    /\ pk = 1
    /\ lastParam = NoParam
    /\ params = <<>>
    /\ invoked = 0
    /\ callArgs = <<>>
    /\ dExc = NoExc
    /\ dMsg = NoMsg
    /\ dRet = "-"
    /\ lastValue = "-"
    /\ anns = <<>>
    /\ bodyRead = 0
    /\ opResult \in OpResults
    /\ respBody = NoRespBody
    /\ respStatus = 200
    /\ respHeaders = <<>>
    /\ AuthIdle
    /\ OpIdle
    /\ OtherIdle

NextHandle ==
    \/ Start
    \/ HandlerEnter
    \/ DispStart
    \/ WalkAttr
    \/ WalkItem
    \/ OpLookup
    \/ OpInvoke
    \/ Respond
    \/ HandlerLeave
    \/ ChainReturn
    \/ AppWrap
    \/ AppLogRaises
    \/ AppErrorHandler

SpecHandle == InitHandle /\ [][NextHandle]_vars

\* Specification of handle_error over the errors of the taxonomy
InitError ==
    /\ hpc = "idle"
    /\ herr \in Errors
    /\ hresp = NoResponse
    /\ ChainIdle
    /\ AuthIdle
    /\ OpIdle
    /\ DispIdle
    /\ ConcIdle
    /\ DecoIdle
    /\ MoreIdle

NextError == HandleError

SpecError == InitError /\ [][NextError]_vars

----------------------------------------------------------------------------
\* Two concurrent calls of Application.handle on one Application

MaxConcFilters == 2
Calls == {1, 2}

\* self.filters of the application: the same list is handed to the Chain of
\* every call.
ConcFilterLists == UNION {[1..n -> FilterKinds] : n \in 0..MaxConcFilters}

\* A response with the request it was produced for.
Tag(req, resp) == [req |-> req, resp |-> resp]
Untag(t) == t.resp
CNone == Tag(0, None)

\* The value v computed from the tagged response old, produced for req if it
\* is a new response.
TagBy(req, v, old) ==
    IF v = None THEN CNone ELSE IF v = Untag(old) THEN old ELSE Tag(req, v)

InstanceShared(c, n) == [req |-> 1, idx |-> n]

\* `f(request)`: the factory is called once per filter and request, and what
\* it returns belongs to that request.
Instance(c, n) == [req |-> c, idx |-> n]

\* What awaiting a filter or the handler can do.
ConcPreOuts(kind) ==
    IF kind = "asyncgen" THEN {"yield_none", "yield_resp", "stop", "raise"}
    ELSE IF kind = "coroutine" THEN {"return_none", "return_resp", "raise"}
    ELSE {"skip"}
ConcPostOuts == {"yield_none", "yield_resp", "stop", "raise"}
ConcHandlerOuts == {"return", "raise"}

\* The exceptions raised: an error of the taxonomy by a filter, an exception
\* outside it by the handler.
ConcExc(n) ==
    IF n = 0 THEN Exc("ValueError", 1, "None", 0, 0)
    ELSE Exc("NotFoundError", 0, "None", 0, n)

\* What the filters and the handler of a call did so far, with the exception
\* that left Chain.handle.
NoPlan == [pre |-> <<>>, handler |-> "-", post |-> <<>>, exc |-> NoExc]

\* Application.handle is called for request c: Chain.handle starts with its
\* own rewind list and response.
ConcStart(c) ==
    /\ cpc[c] = "idle"
    /\ cpc' = [cpc EXCEPT ![c] = IF Len(cfilters) = 0 THEN AfterLoop(None)
                                 ELSE "pre"]
    /\ crewind' = [crewind EXCEPT ![c] = <<>>]
    /\ cresp' = [cresp EXCEPT ![c] = CNone]
    /\ UNCHANGED <<cfilters, cplan, ci, cr, cfed, cresult>>
    /\ UNCHANGED <<chainVars, appVars, authVars, opVars, dispVars, bindVars,
                   respVars, errVars, decoVars, moreVars>>

\* One iteration of the forward loop of call c.
ConcPre(c) ==
    /\ cpc[c] = "pre"
    /\ LET n == ci[c]
           kind == cfilters[n]
           inst == Instance(c, n)
       IN \E out \in ConcPreOuts(kind) :
            LET v == PreValue(Untag(cresp[c]), n, out)
                resp == TagBy(inst.req, v, cresp[c])
                brk == out \in {"yield_none", "yield_resp", "return_none",
                                "return_resp"} /\ LoopBreaks(v)
                propagates == out = "raise" /\ ~Catches(kind, out)
            IN /\ cplan' = [cplan EXCEPT ![c].pre = Append(@, out),
                                         ![c].exc = IF propagates
                                                    THEN ConcExc(n) ELSE @]
               /\ IF propagates
                  THEN /\ cpc' = [cpc EXCEPT ![c] = "chain_raised"]
                       /\ UNCHANGED <<cresp, crewind, ci>>
                  ELSE /\ cresp' = [cresp EXCEPT ![c] = resp]
                       /\ crewind' = [crewind EXCEPT ![c] =
                              IF kind = "asyncgen"
                              THEN RewindAfterPre(@, inst, out, v) ELSE @]
                       /\ IF brk
                          THEN /\ cpc' = [cpc EXCEPT ![c] = AfterLoop(v)]
                               /\ UNCHANGED ci
                          ELSE /\ ci' = [ci EXCEPT ![c] = n + 1]
                               /\ cpc' = [cpc EXCEPT ![c] =
                                      IF n + 1 > Len(cfilters)
                                      THEN AfterLoop(v) ELSE "pre"]
    /\ UNCHANGED <<cfilters, cr, cfed, cresult>>
    /\ UNCHANGED <<chainVars, appVars, authVars, opVars, dispVars, bindVars,
                   respVars, errVars, decoVars, moreVars>>

\* `response = await self.handler(request)` of call c.
ConcHandler(c) ==
    /\ cpc[c] = "handler"
    /\ \E out \in ConcHandlerOuts :
         /\ cplan' = [cplan EXCEPT ![c].handler = out,
                                   ![c].exc = IF out = "raise"
                                              THEN ConcExc(0) ELSE @]
         /\ IF out = "raise"
            THEN /\ cpc' = [cpc EXCEPT ![c] = "chain_raised"]
                 /\ UNCHANGED cresp
            ELSE /\ cresp' = [cresp EXCEPT ![c] = Tag(c, HandlerResp)]
                 /\ cpc' = [cpc EXCEPT ![c] = "rewind"]
    /\ UNCHANGED <<cfilters, ci, crewind, cr, cfed, cresult>>
    /\ UNCHANGED <<chainVars, appVars, authVars, opVars, dispVars, bindVars,
                   respVars, errVars, decoVars, moreVars>>

\* One iteration of the loop over reversed(rewind) of call c.
ConcResume(c) ==
    /\ cpc[c] = "rewind"
    /\ cr[c] < Len(crewind[c])
    /\ LET inst == RewindOrder(crewind[c])[cr[c] + 1]
       IN \E out \in ConcPostOuts :
            /\ cfed' = cfed \cup {[inst |-> inst, resp |-> cresp[c]]}
            /\ cplan' = [cplan EXCEPT
                   ![c].post = Append(@, out),
                   ![c].exc = IF out = "raise" /\ ~Catches("asyncgen", out)
                              THEN ConcExc(inst.idx) ELSE @]
            /\ IF out = "raise" /\ ~Catches("asyncgen", out)
               THEN /\ cpc' = [cpc EXCEPT ![c] = "chain_raised"]
                    /\ UNCHANGED <<cresp, cr>>
               ELSE /\ cresp' = [cresp EXCEPT ![c] =
                           TagBy(inst.req,
                                 ResumeResponse(Untag(@), inst.idx, out), @)]
                    /\ cr' = [cr EXCEPT ![c] = @ + 1]
                    /\ UNCHANGED cpc
    /\ UNCHANGED <<cfilters, ci, crewind, cresult>>
    /\ UNCHANGED <<chainVars, appVars, authVars, opVars, dispVars, bindVars,
                   respVars, errVars, decoVars, moreVars>>

\* `return response` of Chain.handle, returned by Application.handle.
ConcReturn(c) ==
    /\ cpc[c] = "rewind"
    /\ cr[c] = Len(crewind[c])
    /\ cresult' = [cresult EXCEPT ![c] = cresp[c]]
    /\ cpc' = [cpc EXCEPT ![c] = "done"]
    /\ UNCHANGED <<cfilters, cplan, ci, crewind, cr, cresp, cfed>>
    /\ UNCHANGED <<chainVars, appVars, authVars, opVars, dispVars, bindVars,
                   respVars, errVars, decoVars, moreVars>>

\* The except clauses of Application.handle of call c:
\* `return await self.error_handler(err)`.
ConcError(c) ==
    /\ cpc[c] = "chain_raised"
    /\ LET e == Wrap(cplan[c].exc)
       IN /\ LogFailure(e) = NoExc
          /\ cresult' = [cresult EXCEPT ![c] = Tag(c, ErrorResponse(e))]
    /\ cpc' = [cpc EXCEPT ![c] = "done"]
    /\ UNCHANGED <<cfilters, cplan, ci, crewind, cr, cresp, cfed>>
    /\ UNCHANGED <<chainVars, appVars, authVars, opVars, dispVars, bindVars,
                   respVars, errVars, decoVars, moreVars>>

\* Specification of two calls of Application.handle running concurrently
InitConc ==
    /\ cfilters \in ConcFilterLists
    /\ cplan = [c \in Calls |-> NoPlan]
    /\ cpc = [c \in Calls |-> "idle"]
    /\ ci = [c \in Calls |-> 1]
    /\ crewind = [c \in Calls |-> <<>>]
    /\ cr = [c \in Calls |-> 0]
    /\ cresp = [c \in Calls |-> CNone]
    /\ cfed = {}
    /\ cresult = [c \in Calls |-> CNone]
    /\ ChainIdle
    /\ AuthIdle
    /\ OpIdle
    /\ DispIdle
    /\ ErrIdle
    /\ DecoIdle
    /\ MoreIdle

NextConc ==
    \E c \in Calls :
        \/ ConcStart(c)
        \/ ConcPre(c)
        \/ ConcHandler(c)
        \/ ConcResume(c)
        \/ ConcReturn(c)
        \/ ConcError(c)

SpecConc == InitConc /\ [][NextConc]_vars

----------------------------------------------------------------------------
\* The decorator operation (fondat.resource.operation)

\* inspect.Parameter.kind, in the order a signature allows.
ParamKinds == <<"POSITIONAL_ONLY", "POSITIONAL_OR_KEYWORD", "VAR_POSITIONAL",
                "KEYWORD_ONLY", "VAR_KEYWORD">>
KindRank(kind) == CHOOSE k \in DOMAIN ParamKinds : ParamKinds[k] = kind
VarKinds == {"VAR_POSITIONAL", "VAR_KEYWORD"}

\* The parameter lists a Python function can have: kinds in order, at most
\* one *args and one **kwargs.
ParamKindLists(n) ==
    {ps \in UNION {[1..m -> {ParamKinds[k] : k \in DOMAIN ParamKinds}] : m \in 0..n} :
        \A j, k \in DOMAIN ps :
            j < k => /\ KindRank(ps[j]) <= KindRank(ps[k])
                     /\ ps[j] \in VarKinds => ps[j] # ps[k]}

\* What is decorated: a coroutine function (async def), a plain function
\* (def) or an asynchronous generator function (async def with yield), with
\* its parameters; the decorator applied bare or called with options first,
\* and the option validate.
FunctionKinds == {"coroutine", "function", "asyncgen"}
Functions ==
    [kind : FunctionKinds, params : ParamKindLists(MaxParams),
     bare : BOOLEAN, validate : BOOLEAN]

\* asyncio.iscoroutinefunction(wrapped)
IsCoroutineFunction(f) == f.kind = "coroutine"

TypeErrorOf(msg) == [cls |-> "TypeError", args |-> <<msg>>]

SignatureErrorArgsOnly(ps) ==
    IF \E k \in DOMAIN ps : ps[k] = "VAR_POSITIONAL"
    THEN TypeErrorOf("operation with *args is not supported")
    ELSE NoError

\* The loop over inspect.signature(wrapped).parameters: the error of the
\* first parameter that is variadic, NoError if none is.
SignatureError(ps) ==
    IF \E k \in DOMAIN ps : ps[k] \in VarKinds
    THEN LET k == CHOOSE j \in DOMAIN ps :
                      /\ ps[j] \in VarKinds
                      /\ \A h \in 1..(j - 1) : ps[h] \notin VarKinds
         IN IF ps[k] = "VAR_POSITIONAL"
            THEN TypeErrorOf("operation with *args is not supported")
            ELSE TypeErrorOf("operation with **kwargs is not supported")
    ELSE NoError

\* `@operation(...)`: wrapped is None, and operation returns a partial of
\* itself to be applied to the function.
OperationPartial ==
    /\ fpc = "idle"
    /\ ~fn.bare
    /\ fpc' = "partial"
    /\ fret' = "partial"
    /\ UNCHANGED <<fn, fmarker, fexc>>
    /\ UNCHANGED <<chainVars, appVars, authVars, opVars, dispVars, bindVars,
                   respVars, errVars, concVars, moreVars>>

\* operation(wrapped): the checks, then the marker and the wrapper.
OperationDecorate ==
    /\ \/ fpc = "idle" /\ fn.bare
       \/ fpc = "partial"
    /\ LET e == IF ~IsCoroutineFunction(fn)
                THEN TypeErrorOf("operation must be a coroutine")
                ELSE SignatureError(fn.params)
       IN IF e # NoError
          THEN /\ fexc' = e
               /\ fpc' = "raised"
               /\ fret' = "-"
               /\ UNCHANGED fmarker
          ELSE /\ fmarker' = "_fondat_operation"
               /\ fret' = IF fn.validate THEN "wrapper(validate_arguments(wrapped))"
                          ELSE "wrapper(wrapped)"
               /\ fpc' = "returned"
               /\ UNCHANGED fexc
    /\ UNCHANGED fn
    /\ UNCHANGED <<chainVars, appVars, authVars, opVars, dispVars, bindVars,
                   respVars, errVars, concVars, moreVars>>

\* is_operation on what the decorator returned: the wrapper passes attribute
\* reads on to the function it wraps.
IsOperationResult ==
    fret \in {"wrapper(wrapped)", "wrapper(validate_arguments(wrapped))"}
    /\ fmarker # "-"

\* Specification of operation over the functions it can be applied to
InitDeco ==
    /\ fpc = "idle"
    /\ fn \in Functions
    /\ fmarker = "-"
    /\ fexc = NoError
    /\ fret = "-"
    /\ ChainIdle
    /\ AuthIdle
    /\ OpIdle
    /\ DispIdle
    /\ ErrIdle
    /\ ConcIdle
    /\ MoreIdle

NextDeco == OperationPartial \/ OperationDecorate

SpecDeco == InitDeco /\ [][NextDeco]_vars

----------------------------------------------------------------------------
\* Container resources (fondat.resource.container_resource) walked by
\* _subordinate

MaxDepth == 2

\* Instances of resource classes with operations, as in the tests: R1 has
\* the operations post and delete, R2 has get.
Leaf(id) == [kind |-> "leaf", id |-> id, map |-> <<>>]
Leaves == {Leaf("R1"), Leaf("R2")}
LeafOps(id) == IF id = "R1" THEN {"post", "delete"} ELSE {"get"}

\* container_resource(resources): an instance of a new class Container that
\* keeps the mapping.
Container(m) == [kind |-> "container", id |-> "-", map |-> m]

\* The value of the attribute _fondat_resource that the decorator resource
\* sets on a class.
Namespace == [kind |-> "namespace", id |-> "-", map |-> <<>>]

\* A bound method that is an operation.
OperationObj == [kind |-> "operation", id |-> "-", map |-> <<>>]

\* Names a mapping may use as keys, and names a path may hold: a name that
\* is never mapped, and the name of an attribute every resource has.
MapNames == {"r", "_fondat_resource"}
PathNames == {"r", "x", "_fondat_resource"}
TreeMethods == {"get", "post"}

\* The resources nested at most d containers deep.
RECURSIVE Trees(_)
Trees(d) ==
    IF d = 0 THEN Leaves
    ELSE LET sub == Trees(d - 1)
         IN sub \cup {Container(m) : m \in UNION {[S -> sub] : S \in SUBSET MapNames}}

\* getattr(obj, name, None): the attributes of the object itself come
\* first; Container.__getattr__ is called for any other name and gives
\* resources[name], its AttributeError being replaced by the default.
GetAttr(obj, name) ==
    IF name = "_fondat_resource" /\ obj.kind \in {"leaf", "container"}
    THEN Namespace
    ELSE IF obj.kind = "leaf" /\ name \in LeafOps(obj.id) THEN OperationObj
    ELSE IF obj.kind = "container" /\ name \in DOMAIN obj.map
    THEN obj.map[name]
    ELSE NoneObj

\* fondat.resource.is_resource
IsResource(obj) == GetAttr(obj, "_fondat_resource") # NoneObj

\* fondat.resource.is_operation
IsOperationObj(obj) == obj.kind = "operation"

\* _subordinate(resource, segment) on these objects: the resource found, or
\* NoneObj when it raises NotFoundError.  A namespace is not callable; the
\* return type of an operation is no resource; neither a container nor an
\* instance of R1 or R2 has __getitem__, so resource[segment] raises
\* TypeError.
Subordinate(obj, segment) ==
    LET attr == GetAttr(obj, segment)
    IN IF attr # NoneObj
       THEN IF IsResource(attr) THEN attr ELSE NoneObj
       ELSE NoneObj

\* _handle starts the walk at self.root.
TreeStart ==
    /\ tpc = "idle"
    /\ tcur' = troot
    /\ tpc' = "walk"
    /\ UNCHANGED <<troot, tpath, tmethod, tpos, top, texc>>
    /\ UNCHANGED <<chainVars, appVars, authVars, opVars, dispVars, bindVars,
                   respVars, errVars, concVars, decoVars, innerVars>>

\* `resource = await _subordinate(resource, segment)` for the next segment
\* of the path.
TreeWalk ==
    /\ tpc = "walk"
    /\ Len(tpath) < MaxDepth + 1
    /\ \E segment \in PathNames :
         LET sub == Subordinate(tcur, segment)
         IN /\ tpath' = Append(tpath, segment)
            /\ IF sub = NoneObj
               THEN /\ texc' = "NotFoundError"
                    /\ tpc' = "raised"
                    /\ UNCHANGED <<tcur, tpos>>
               ELSE /\ tcur' = sub
                    /\ tpos' = tpos + 1
                    /\ UNCHANGED <<texc, tpc>>
    /\ UNCHANGED <<troot, tmethod, top>>
    /\ UNCHANGED <<chainVars, appVars, authVars, opVars, dispVars, bindVars,
                   respVars, errVars, concVars, decoVars, innerVars>>

\* The path is exhausted: `operation = getattr(resource, method, None)` and
\* the test is_operation.
TreeOpLookup ==
    /\ tpc = "walk"
    /\ \E method \in TreeMethods :
         LET operation == GetAttr(tcur, method)
         IN /\ tmethod' = method
            /\ top' = operation
            /\ IF ~IsOperationObj(operation)
               THEN /\ texc' = "MethodNotAllowedError"
                    /\ tpc' = "raised"
               ELSE /\ tpc' = "operation"
                    /\ UNCHANGED texc
    /\ UNCHANGED <<troot, tpath, tpos, tcur>>
    /\ UNCHANGED <<chainVars, appVars, authVars, opVars, dispVars, bindVars,
                   respVars, errVars, concVars, decoVars, innerVars>>

\* Specification of the walk over trees of containers
InitTree ==
    /\ troot \in Trees(MaxDepth)
    /\ tpath = <<>>
    /\ tmethod = "-"
    /\ tpc = "idle"
    /\ tpos = 0
    /\ tcur = NoneObj
    /\ top = NoneObj
    /\ texc = "None"
    /\ ChainIdle
    /\ AuthIdle
    /\ OpIdle
    /\ DispIdle
    /\ ErrIdle
    /\ ConcIdle
    /\ DecoIdle
    /\ InnerIdle

NextTree == TreeStart \/ TreeWalk \/ TreeOpLookup

SpecTree == InitTree /\ [][NextTree]_vars

----------------------------------------------------------------------------
\* Inner resources (fondat.resource.inner, query, mutation)

\* The two ways of calling an inner resource: `await r.q()` and
\* `await r.q.get()`.
Routes == {"call", "method"}

\* Instances of the outer resource class.
Outers == {"r1", "r1b"}

\* The decorator, the method name given ("-": none given), what
\* authorize(security) does and what the decorated method does.
InnerDecls ==
    [deco : {"query", "mutation"}, method : {"-", "get", "post", "put"},
     security : {"none", "granted", "unauthorized"},
     body : {"return", "raise"}]

\* query(wrapped, method="get") and mutation(wrapped, method="post").
MethodName(decl) ==
    IF decl.method # "-" THEN decl.method
    ELSE IF decl.deco = "query" THEN "get" ELSE "post"

\* The attributes set on the class Inner: the operation proxy under the
\* method name and under __call__.
InnerAttr(decl, name) ==
    IF name = MethodName(decl) \/ name = "__call__" THEN "proxy" ELSE "None"

\* The attribute each way of calling looks up.
RouteAttr(decl, route) ==
    IF route = "call" THEN "__call__" ELSE MethodName(decl)

\* `Inner(self)` in the property: the instance keeps the outer instance.
NewInner(outer, route) == [of |-> route, _outer |-> outer]

ProxySelfInner(inner) == inner.of

\* `types.MethodType(_wrapped, self._outer)`: the instance the decorated
\* method is bound to.
ProxySelf(inner) == inner._outer

\* What the decorated method returns, as q1 of the tests: an attribute of
\* the instance it is bound to.
MethodResult(decl, self) ==
    IF decl.body = "raise" THEN [exc |-> "ValueError", value |-> "-"]
    ELSE [exc |-> "None", value |-> <<"i_am", self>>]

\* The property is read on the outer instance: `return Inner(self)`.
InnerGet(route) ==
    /\ ipc[route] = "idle"
    /\ iinner' = [iinner EXCEPT ![route] = NewInner(iouter, route)]
    /\ ipc' = [ipc EXCEPT ![route] = "got"]
    /\ UNCHANGED <<idecl, iouter, iself, iran, iret>>
    /\ UNCHANGED <<chainVars, appVars, authVars, opVars, dispVars, bindVars,
                   respVars, errVars, concVars, decoVars, treeVars>>

\* The attribute is called: the wrapper of operation awaits authorize.
InnerInvoke(route) ==
    /\ ipc[route] = "got"
    /\ iran' = [iran EXCEPT ![route] = InnerAttr(idecl, RouteAttr(idecl, route))]
    /\ IF idecl.security = "unauthorized"
       THEN /\ iret' = [iret EXCEPT ![route] =
                           [exc |-> "UnauthorizedError", value |-> "-"]]
            /\ ipc' = [ipc EXCEPT ![route] = "raised"]
       ELSE /\ ipc' = [ipc EXCEPT ![route] = "proxy"]
            /\ UNCHANGED iret
    /\ UNCHANGED <<idecl, iouter, iinner, iself>>
    /\ UNCHANGED <<chainVars, appVars, authVars, opVars, dispVars, bindVars,
                   respVars, errVars, concVars, decoVars, treeVars>>

\* proxy: the decorated method runs bound to the outer instance.
InnerProxy(route) ==
    /\ ipc[route] = "proxy"
    /\ LET self == ProxySelf(iinner[route])
           res == MethodResult(idecl, self)
       IN /\ iself' = [iself EXCEPT ![route] = self]
          /\ iret' = [iret EXCEPT ![route] = res]
          /\ ipc' = [ipc EXCEPT ![route] =
                        IF res.exc = "None" THEN "returned" ELSE "raised"]
    /\ UNCHANGED <<idecl, iouter, iinner, iran>>
    /\ UNCHANGED <<chainVars, appVars, authVars, opVars, dispVars, bindVars,
                   respVars, errVars, concVars, decoVars, treeVars>>

\* Specification of the calls of an inner resource
InitInner ==
    /\ ipc = [route \in Routes |-> "idle"]
    /\ idecl \in InnerDecls
    /\ iouter \in Outers
    /\ iinner = [route \in Routes |-> NewInner("-", route)]
    /\ iself = [route \in Routes |-> "-"]
    /\ iran = [route \in Routes |-> "-"]
    /\ iret = [route \in Routes |-> [exc |-> "None", value |-> "-"]]
    /\ ChainIdle
    /\ AuthIdle
    /\ OpIdle
    /\ DispIdle
    /\ ErrIdle
    /\ ConcIdle
    /\ DecoIdle
    /\ TreeIdle

NextInner ==
    \E route \in Routes :
        \/ InnerGet(route)
        \/ InnerInvoke(route)
        \/ InnerProxy(route)

SpecInner == InitInner /\ [][NextInner]_vars

----------------------------------------------------------------------------
\* Observations on a run of Chain.handle

Range(s) == {s[k] : k \in 1..Len(s)}

\* Chain.handle has finished, by returning or by raising.
ChainFinished == pc \in {"chain_raised", "app_except", "done", "raised"}

\* Chain.handle has returned a response.
ChainReturned == pc = "done" /\ chainExc = NoExc

\* Application.handle has finished, by returning or by raising.
AppFinished == pc \in {"done", "raised"}

\* The filters resumed, in the order of their asend calls.
ResumeLog == SelectSeq(log, LAMBDA e : e.ev = "resume")
ResumeOrderLog == [k \in 1..Len(ResumeLog) |-> ResumeLog[k].idx]
ResumedSet == {n \in DOMAIN postOut : postOut[n] # "-"}

\* The two-phase filters entered, in the order of their __anext__ calls.
EnteredLog == SelectSeq(log, LAMBDA e : e.ev = "pre" /\ filters[e.idx] = "asyncgen")
EnteredOrderLog == [k \in 1..Len(EnteredLog) |-> EnteredLog[k].idx]

TwoPhase == {n \in DOMAIN filters : filters[n] = "asyncgen"}

\* The two-phase filters that yielded no value in their pre-phase.
Suspended == {n \in DOMAIN preOut : preOut[n] = "yield_none"}

\* The filter produced a response in its pre-phase.
ShortCircuited(n) == preOut[n] \in {"yield_resp", "return_resp"}

\* Every filter continued past its pre-phase: a two-phase filter yielded no
\* value, a one-shot filter returned no value.
AllContinue ==
    \A n \in DOMAIN filters :
        preOut[n] = (IF filters[n] = "asyncgen" THEN "yield_none"
                     ELSE IF filters[n] = "coroutine" THEN "return_none"
                     ELSE "skip")

\* The response the forward walk ended with: the short-circuit response of a
\* filter, or else the handler's.
ForwardResponse ==
    IF \E n \in DOMAIN preOut : ShortCircuited(n)
    THEN PreResp(CHOOSE n \in DOMAIN preOut : ShortCircuited(n))
    ELSE HandlerResp

\* The response that leaves the resume step of filter n.
After(n) == IF postOut[n] = "yield_resp" THEN PostResp(n) ELSE fed[n]

----------------------------------------------------------------------------
\* Claims on Chain.handle (specification Spec)

\* C1: when every filter continues past its pre-phase and no error occurs,
\* each two-phase filter is resumed exactly once, after the terminal handler
\* has returned, in the reverse of the order in which the filters were
\* entered.
C1_ResumeReverseOfEntry ==
    (ChainReturned /\ AllContinue) =>
        /\ ResumeOrderLog = Reverse(EnteredOrderLog)
        /\ \A n \in TwoPhase :
             Cardinality({k \in 1..Len(ResumeLog) : ResumeLog[k].idx = n}) = 1
        /\ \A k \in 1..Len(log) :
             log[k].ev = "resume" =>
                \E h \in 1..(k - 1) : log[h].ev = "handler" /\ log[h].out = "return"

C1_Witness ==
    /\ ChainReturned
    /\ AllContinue
    /\ filters = <<"asyncgen", "asyncgen", "asyncgen">>
    /\ ResumeOrderLog = <<3, 2, 1>>

\* C2 as stated: in every execution of Chain.handle the set of resumed
\* filters is exactly the set of two-phase filters that yielded no value in
\* their pre-phase.
C2_Original ==
    ChainFinished => ResumedSet = Suspended

\* C2, amended: a two-phase filter that yields a response in its pre-phase
\* is never on the rewind list and never resumed; the resumed filters are
\* always among the two-phase filters that yielded no value in their
\* pre-phase, and are exactly those in every execution that returns a
\* response.
C2_ShortCircuitNeverResumed ==
    /\ \A n \in DOMAIN preOut :
         preOut[n] = "yield_resp" => n \notin Range(rewind) /\ postOut[n] = "-"
    /\ ResumedSet \subseteq Suspended
    /\ ChainReturned => ResumedSet = Suspended

C2_Witness ==
    /\ ChainReturned
    /\ filters = <<"asyncgen", "asyncgen", "asyncgen">>
    /\ preOut = <<"yield_none", "yield_resp", "-">>
    /\ ResumeOrderLog = <<1>>

\* C3: once a filter produces a response in its pre-phase no later filter is
\* instantiated or entered and the handler is never invoked; if no filter
\* short-circuits and none raises in the forward walk, the handler is invoked
\* exactly once, after the pre-phase of every filter.
C3_ShortCircuitStopsWalk ==
    /\ \A n \in DOMAIN preOut :
         ShortCircuited(n) =>
            /\ handlerCalls = 0
            /\ \A m \in DOMAIN preOut :
                 m > n => m \notin instantiated /\ preOut[m] = "-"
    /\ handlerCalls <= 1
    /\ (/\ ChainFinished
        /\ \A n \in DOMAIN preOut : ~ShortCircuited(n) /\ preOut[n] # "raise")
       => /\ handlerCalls = 1
          /\ instantiated = DOMAIN filters
          /\ \A n \in DOMAIN filters : log[n].ev = "pre" /\ log[n].idx = n
          /\ log[Len(filters) + 1].ev = "handler"

C3_Witness ==
    /\ ChainReturned
    /\ Len(filters) = 3
    /\ ShortCircuited(2)
    /\ instantiated = {1, 2}
    /\ handlerCalls = 0

\* C4 as stated: when a one-shot filter produces a response, Chain.handle
\* returns exactly that response and no filter post-processes it, the
\* two-phase filters entered earlier included.
C4_Original ==
    \A n \in DOMAIN preOut :
        (ChainReturned /\ preOut[n] = "return_resp") =>
            chainRet = PreResp(n) /\ ResumeLog = <<>>

\* C4, amended: when a one-shot filter produces a response, no later filter
\* is entered and the handler is not invoked; the two-phase filters entered
\* earlier that yielded no value are resumed in reverse order, the first of
\* them with that response, and Chain.handle returns that response unless a
\* resumed filter yields a replacement.
C4_OneShotResponseRewound ==
    \A n \in DOMAIN preOut :
        (ChainReturned /\ preOut[n] = "return_resp") =>
            /\ handlerCalls = 0
            /\ \A m \in DOMAIN preOut : m > n => preOut[m] = "-"
            /\ Range(rewind) = {m \in Suspended : m < n}
            /\ ResumeOrderLog = Reverse(rewind)
            /\ rewind # <<>> => fed[rewind[Len(rewind)]] = PreResp(n)
            /\ (\A m \in ResumedSet : postOut[m] # "yield_resp")
                  => chainRet = PreResp(n)
            /\ rewind = <<>> => chainRet = PreResp(n)

C4_Witness ==
    /\ ChainReturned
    /\ filters = <<"asyncgen", "coroutine", "asyncgen">>
    /\ preOut = <<"yield_none", "return_resp", "-">>
    /\ postOut[1] = "yield_none"
    /\ fed[1] = PreResp(2)
    /\ chainRet = PreResp(2)

\* C5: during resumption the current response changes only when a resumed
\* filter yields a replacement; the replacement is what the next upstream
\* filter is fed and, if no later filter replaces it, what is returned; a
\* filter that yields no value or completes leaves the response unchanged
\* and resumption continues.
C5_ReplacementOnly ==
    LET order == ResumeOrderLog
    IN /\ Len(order) > 0 => fed[order[1]] = ForwardResponse
       /\ \A k \in 1..(Len(order) - 1) : fed[order[k + 1]] = After(order[k])
       /\ (pc = "rewind" /\ Len(order) > 0) => response = After(order[Len(order)])
       /\ ChainReturned => order = Reverse(rewind)
       /\ ChainReturned =>
             chainRet = (IF Len(order) > 0 THEN After(order[Len(order)])
                         ELSE ForwardResponse)

C5_Witness ==
    /\ ChainReturned
    /\ filters = <<"asyncgen", "asyncgen", "asyncgen">>
    /\ postOut = <<"yield_none", "stop", "yield_resp">>
    /\ fed = <<PostResp(3), PostResp(3), HandlerResp>>
    /\ chainRet = PostResp(3)

\* C6: if a filter raises in its pre-phase or in its resume step, that error
\* leaves Chain.handle at once: no later filter is entered, the handler is
\* not invoked if it has not run, no filter still on the rewind list is
\* resumed afterwards, and no response is returned.
C6_FilterErrorPropagates ==
    /\ \A n \in DOMAIN preOut :
         preOut[n] = "raise" =>
            /\ ChainFinished
            /\ log[Len(log)].ev = "pre" /\ log[Len(log)].idx = n
            /\ chainExc = log[Len(log)].exc /\ chainExc \in Raisable(n)
            /\ instantiated = 1..n
            /\ handlerCalls = 0
            /\ ResumeLog = <<>>
            /\ chainRet = None
    /\ \A n \in DOMAIN postOut :
         postOut[n] = "raise" =>
            /\ ChainFinished
            /\ log[Len(log)].ev = "resume" /\ log[Len(log)].idx = n
            /\ chainExc = log[Len(log)].exc /\ chainExc \in Raisable(n)
            /\ \A m \in Range(rewind) : m < n => postOut[m] = "-"
            /\ chainRet = None

C6_Witness ==
    /\ AppFinished
    /\ rewind = <<1, 2, 3>>
    /\ postOut = <<"-", "raise", "yield_none">>
    /\ handlerCalls = 1
    /\ chainRet = None

----------------------------------------------------------------------------
\* Claims on Application.handle (specification Spec)

\* C7: every exception outside the taxonomy that leaves the chain is wrapped
\* once as InternalServerError with the original as its cause, passed to the
\* error handler, whose response is returned; Application.handle does not
\* raise.
C7_Original ==
    (AppFinished /\ chainExc # NoExc /\ ~IsError(chainExc)) =>
        LET wrapped == Exc("InternalServerError", 0, chainExc.cls, chainExc.nargs, 0)
        IN /\ raised = NoExc
           /\ errHandled = <<wrapped>>
           /\ result = ErrorResponse(wrapped)

\* C8: every taxonomy error raised in the chain reaches the error handler
\* unchanged exactly once and Application.handle returns that handler's
\* response instead of raising.
C8_Original ==
    (AppFinished /\ IsError(chainExc)) =>
        /\ raised = NoExc
        /\ errHandled = <<chainExc>>
        /\ result = ErrorResponse(chainExc)

----------------------------------------------------------------------------
\* Claims on authorize (specification SpecAuth)

AuthFinished == apc \in {"granted", "raised"}

SecurityErrors == {"forbidden", "unauthorized"}

\* C9: authorize grants as soon as one requirement's check succeeds,
\* whatever security errors the requirements before it raised; requirements
\* are evaluated in declared order and none after the first success.
C9_Original ==
    LET reqs == Requirements(security)
    IN \A s \in 1..Len(reqs) :
         (/\ AuthFinished
          /\ reqs[s] = "ok"
          /\ \A j \in 1..(s - 1) : reqs[j] \in SecurityErrors)
         => /\ apc = "granted"
            /\ evaluated = [k \in 1..s |-> k]

\* C10: when every requirement fails and at least one fails with Forbidden,
\* authorize raises the first Forbidden failure in declared order.
C10_Original ==
    LET reqs == Requirements(security)
        forbidden == {j \in 1..Len(reqs) : reqs[j] = "forbidden"}
    IN (/\ AuthFinished
        /\ \A j \in 1..Len(reqs) : reqs[j] \in SecurityErrors
        /\ forbidden # {})
       => /\ apc = "raised"
          /\ authExc = ReqExc("forbidden", CHOOSE j \in forbidden :
                                              \A m \in forbidden : j <= m)

\* The requirements whose check was awaited are the first n, in order.
EvaluatedFirst(n) == evaluated = [k \in 1..n |-> k]

\* C11: when every requirement fails with Unauthorized, authorize evaluates
\* all of them and then raises the Unauthorized failure of the first one in
\* declared order.
C11_FirstUnauthorized ==
    LET reqs == Requirements(security)
    IN (/\ AuthFinished
        /\ Len(reqs) > 0
        /\ \A j \in 1..Len(reqs) : reqs[j] = "unauthorized")
       => /\ apc = "raised"
          /\ EvaluatedFirst(Len(reqs))
          /\ authExc = ReqExc("unauthorized", 1)

C11_Witness ==
    /\ AuthFinished
    /\ Requirements(security) = <<"unauthorized", "unauthorized", "unauthorized">>
    /\ evaluated = <<1, 2, 3>>
    /\ authExc = ReqExc("unauthorized", 1)

\* C12: if a requirement's check raises an exception that is neither
\* Forbidden nor Unauthorized, authorize propagates that same exception at
\* once and evaluates no further requirement, even one that would succeed.
C12_OtherPropagates ==
    LET reqs == Requirements(security)
    IN \A s \in 1..Len(reqs) :
         (s \in Range(evaluated) /\ reqs[s] = "other") =>
            /\ apc = "raised"
            /\ authExc = ReqExc("other", s)
            /\ EvaluatedFirst(s)

C12_Witness ==
    /\ AuthFinished
    /\ Requirements(security) = <<"unauthorized", "other", "ok">>
    /\ evaluated = <<1, 2>>
    /\ authExc = ReqExc("other", 2)

\* C13: authorize called with an empty requirement list, or with None,
\* completes without raising and without evaluating any check.
C13_EmptyAuthorizes ==
    (AuthFinished /\ (security.isNone \/ security.reqs = <<>>)) =>
        /\ apc = "granted"
        /\ authExc = NoExc
        /\ evaluated = <<>>

C13_Witness ==
    /\ AuthFinished
    /\ security.isNone
    /\ apc = "granted"

----------------------------------------------------------------------------
\* Observations on a call of an operation

OpFinished == opc \in {"raised", "returned"}

\* C14: the body of an operation runs only after authorize has returned for
\* the operation's security requirements in that call; when authorize raises,
\* the body is never entered and the call raises the exception of authorize.
C14_BodyAfterAuthorize ==
    /\ bodyRuns > 0 => apc = "granted" /\ authExc = NoExc
    /\ apc = "raised" => bodyRuns = 0
    /\ (OpFinished /\ apc = "raised") =>
          /\ opc = "raised"
          /\ opExc = authExc
          /\ opRet = "-"
    /\ (OpFinished /\ apc = "granted") => bodyRuns = 1

C14_Witness ==
    /\ opc = "raised"
    /\ Requirements(security) = <<"unauthorized", "unauthorized">>
    /\ evaluated = <<1, 2>>
    /\ opExc = ReqExc("unauthorized", 1)
    /\ bodyRuns = 0

----------------------------------------------------------------------------
\* Observations on a run of Application._handle

DispFinished == dpc \in {"raised", "op_returned", "returned"}

\* Some character of the prefix is missing from the string or differs.
Mismatch(str, prefix) ==
    \E k \in 1..Len(prefix) : k > Len(str) \/ str[k] # prefix[k]

\* The walk has resolved every segment of the path.
WalkSucceeded == dpc \in {"lookup_op", "bind", "invoke", "op_returned"} \/ opAttr # "-"

\* C15: a request whose path does not start with the mount prefix (the
\* configured path, or the path as the application stores it) ends in
\* NotFoundError, raised before any attribute or item lookup on a resource.
C15_PrefixMismatchNotFound ==
    ((Mismatch(path0, mount) \/ Mismatch(path0, MountPath(mount))) /\ dpc # "idle") =>
        /\ dpc = "raised"
        /\ dExc = Raised("NotFoundError")
        /\ attrLookups = 0
        /\ itemLookups = 0
        /\ opAttr = "-"
        /\ invoked = 0

C15_Witness ==
    /\ dpc = "raised"
    /\ mount = <<"/", "a">>
    /\ path0 = <<"/", "a">>
    /\ dExc = Raised("NotFoundError")
    /\ attrLookups = 0
    /\ itemLookups = 0

\* C16: when the walk has resolved every segment and the final resource has
\* no attribute named after the lowercased method, or one that is no
\* operation, _handle raises MethodNotAllowedError (not NotFoundError), binds
\* no parameter and invokes nothing.
C16_MethodNotAllowed ==
    (opAttr \in {"none", "nonoperation"}) =>
        /\ seg > Len(segments) \/ segments = <<>>
        /\ opName = IF reqMethod = <<"P", "u", "t">> THEN <<"p", "u", "t">>
                    ELSE <<"g", "e", "t">>
        /\ dpc = "raised"
        /\ dExc = Raised("MethodNotAllowedError")
        /\ dExc.cls # "NotFoundError"
        /\ lastParam = NoParam
        /\ params = <<>>
        /\ invoked = 0

C16_Witness ==
    /\ opAttr = "nonoperation"
    /\ reqMethod = <<"P", "u", "t">>
    /\ opName = <<"p", "u", "t">>
    /\ attrLookups = 1
    /\ Len(sig) = 1
    /\ dExc = Raised("MethodNotAllowedError")

\* The walk ended in an exception of _subordinate.
WalkFailed == dpc = "raised" /\ attrLookups > 0 /\ opAttr = "-"

\* C17: a segment resolved through the item lookup whose key is out of
\* range, missing or of an incompatible type, or whose item is no resource,
\* ends the walk in NotFoundError and in no other exception.
C17_Original ==
    (lastLookup.attr = "none" /\ lastLookup.item # "resource") =>
        /\ WalkFailed
        /\ dExc = Raised("NotFoundError")

\* C18: for a segment that names an attribute of the resource, the walk
\* descends into an attribute that is a resource and into the result of a
\* callable whose declared return type is a resource; in every other case it
\* ends in NotFoundError and in no other exception.
C18_Original ==
    (lastLookup.attr \in AttrFound) =>
        IF lastLookup.attr \in {"resource", "callable_sync", "callable_async"}
        THEN ~WalkFailed
        ELSE WalkFailed /\ dExc = Raised("NotFoundError")

----------------------------------------------------------------------------
\* Claims on the parameter binding (specification SpecBind)

\* Parameter number j has no default, is not optional, and the request holds
\* no value for it.
NoValueNoDefault(j) ==
    ~sig[j].present /\ ~sig[j].hasDefault /\ ~sig[j].optional

\* C19: when the operation has a parameter without default and not optional
\* for which the selected source holds no value, the request ends in
\* BadRequestError and the operation is never invoked; binding never goes
\* past that parameter, and the error raised at it reads "expecting value in"
\* followed by the parameter's source and key.
C19_RequiredMissingBadRequest ==
    \A j \in 1..Len(sig) :
        NoValueNoDefault(j) =>
            /\ invoked = 0
            /\ dpc # "invoke"
            /\ pk <= j
            /\ j \notin DOMAIN params
            /\ (DispFinished /\ opAttr = "operation") =>
                  /\ dExc = Raised("BadRequestError")
                  /\ dMsg.source = lastParam.source
                  /\ dMsg.key = lastParam.key
            /\ (DispFinished /\ lastParam.idx = j) =>
                  /\ dMsg.text = "expecting value"
                  /\ dMsg.source \in {"query", "header", "cookie", "body"}
                  /\ dMsg.source = "body" => dMsg.key = 0
                  /\ dMsg.key \in {j, 0}

C19_Witness ==
    /\ dpc = "raised"
    /\ Len(sig) = 2
    /\ sig[1].present
    /\ NoValueNoDefault(2)
    /\ params = (1 :> "value")
    /\ lastParam = [idx |-> 2, source |-> "header", key |-> 2]
    /\ dExc = Raised("BadRequestError")
    /\ dMsg = [text |-> "expecting value", source |-> "header", key |-> 2]
    /\ invoked = 0

\* C20: a parameter with a default or an optional type for which the
\* selected source holds no value is bound to None under its own name; the
\* operation, when binding completes, is called with that parameter among
\* its arguments, bound to None and never left out.
C20_AbsentBoundToNone ==
    /\ \A j \in 1..Len(sig) :
          (~sig[j].present /\ (sig[j].hasDefault \/ sig[j].optional)) =>
              /\ j < pk => (j \in DOMAIN params /\ params[j] = "None")
              /\ invoked > 0 => (j \in DOMAIN callArgs /\ callArgs[j] = "None")
    /\ invoked > 0 => DOMAIN callArgs = 1..Len(sig)
    /\ (DispFinished /\ opAttr = "operation" /\ dExc.cls # "BadRequestError") =>
          invoked = 1

C20_Witness ==
    /\ dpc = "op_returned"
    /\ invoked = 1
    /\ Len(sig) = 2
    /\ sig[1] = [hasDefault |-> TRUE, optional |-> FALSE, present |-> FALSE]
    /\ sig[2].present
    /\ callArgs = <<"None", "value">>

\* C21: a parameter value that is present but is not decoded for the
\* parameter's type, or is decoded and fails validation, ends the request in
\* BadRequestError whose message names the parameter's source and key; the
\* value is not bound and the operation is not invoked.
C21_BadValueBadRequest ==
    (lastValue \in {"invalid", "decode_error"}) =>
        /\ dpc = "raised"
        /\ dExc = Raised("BadRequestError")
        /\ dMsg.text = IF lastValue = "invalid" THEN "validation error"
                       ELSE "decode error"
        /\ dMsg.source = lastParam.source
        /\ dMsg.source \in {"query", "header", "cookie", "body"}
        /\ dMsg.key = lastParam.key
        /\ lastParam.idx \notin DOMAIN params
        /\ invoked = 0
        /\ callArgs = <<>>

C21_Witness ==
    /\ lastValue = "invalid"
    /\ Len(sig) = 2
    /\ params = (1 :> "None")
    /\ lastParam = [idx |-> 2, source |-> "cookie", key |-> 0]
    /\ dExc = Raised("BadRequestError")
    /\ dMsg = [text |-> "validation error", source |-> "cookie", key |-> 0]
    /\ invoked = 0

----------------------------------------------------------------------------
\* Claims on the selection of a parameter's source (specification SpecSource)

\* C22: a parameter is bound from one source: the first source annotation
\* (query, header, cookie or body) among its annotations when there is one,
\* whatever source annotations follow it, and the query string under the
\* parameter's own name when there is none.
C22_FirstSourceWins ==
    (dpc = "selected") =>
        /\ lastParam.idx = pk
        /\ \A k \in 1..Len(anns) :
              (anns[k].kind # "other" /\ \A j \in 1..(k - 1) : anns[j].kind = "other") =>
                  /\ lastParam.source = anns[k].kind
                  /\ lastParam.key = IF anns[k].kind = "body" THEN 0
                                     ELSE IF anns[k].keyIsName THEN pk ELSE 0
        /\ (\A k \in 1..Len(anns) : anns[k].kind = "other") =>
              /\ lastParam.source = "query"
              /\ lastParam.key = pk

C22_Witness ==
    /\ dpc = "selected"
    /\ pk = 2
    /\ anns = <<[kind |-> "header", keyIsName |-> FALSE],
                [kind |-> "body", keyIsName |-> TRUE]>>
    /\ lastParam = [idx |-> 2, source |-> "header", key |-> 0]

----------------------------------------------------------------------------
\* Claims on the binding of the request body (specification SpecBody)

\* The request has no body, or a body whose chunks are all empty.
EmptyBody == ~reqBody.present \/ \A k \in 1..Len(reqBody.chunks) : reqBody.chunks[k] = 0

\* The binding loop has dealt with the parameter annotated InBody.
BodyParamDone == bodyParam > 0 /\ lastParam.idx >= bodyParam

\* C23: for a parameter bound from the body whose type is not a Stream, a
\* request without body or with a body of zero bytes in all gives no value
\* (nothing is decoded): a parameter without default and not optional ends
\* the request in BadRequestError, any other is bound to None.
C23_EmptyBodyAbsent ==
    (BodyParamDone /\ bodyHint = "value" /\ EmptyBody) =>
        /\ bodyRead = Len(reqBody.chunks)
        /\ lastParam.idx = bodyParam =>
              (lastValue = "None" /\ lastParam.source = "body")
        /\ IF ~sig[bodyParam].hasDefault /\ ~sig[bodyParam].optional
           THEN /\ lastParam.idx = bodyParam
                /\ dpc = "raised"
                /\ dExc = Raised("BadRequestError")
                /\ dMsg = [text |-> "expecting value", source |-> "body", key |-> 0]
                /\ bodyParam \notin DOMAIN params
                /\ invoked = 0
           ELSE /\ bodyParam \in DOMAIN params
                /\ params[bodyParam] = "None"

C23_Witness ==
    /\ reqBody = [present |-> TRUE, chunks |-> <<0, 0>>]
    /\ bodyHint = "value"
    /\ bodyParam = 1
    /\ sig = <<[hasDefault |-> FALSE, optional |-> TRUE, present |-> FALSE]>>
    /\ bodyRead = 2
    /\ callArgs = <<"None">>
    /\ invoked = 1

\* C24 as stated: for a parameter bound from the body whose type is a
\* Stream, the request body is passed to the operation as it is and is not
\* consumed, and a request without body is not rejected: the parameter is
\* bound to None.
C24_Original ==
    (BodyParamDone /\ bodyHint = "stream") =>
        /\ bodyRead = 0
        /\ (reqBody.present /\ bodyParam \in DOMAIN params) =>
              params[bodyParam] = "request.body"
        /\ ~reqBody.present =>
              /\ bodyParam \in DOMAIN params
              /\ params[bodyParam] = "None"

\* C24, amended: for a parameter bound from the body whose type is a Stream,
\* the request body is bound as it is and is not consumed; a request without
\* body gives no value, so that a parameter without default and not optional
\* ends the request in BadRequestError and any other is bound to None.
C24_StreamPassedThrough ==
    (BodyParamDone /\ bodyHint = "stream") =>
        /\ bodyRead = 0
        /\ (reqBody.present /\ bodyParam \in DOMAIN params) =>
              /\ params[bodyParam] = "request.body"
              /\ invoked > 0 => callArgs[bodyParam] = "request.body"
        /\ ~reqBody.present =>
              IF ~sig[bodyParam].hasDefault /\ ~sig[bodyParam].optional
              THEN /\ lastParam.idx = bodyParam
                   /\ dpc = "raised"
                   /\ dExc = Raised("BadRequestError")
                   /\ dMsg = [text |-> "expecting value", source |-> "body", key |-> 0]
                   /\ invoked = 0
              ELSE /\ bodyParam \in DOMAIN params
                   /\ params[bodyParam] = "None"
                   /\ invoked > 0 => callArgs[bodyParam] = "None"

C24_Witness ==
    /\ bodyHint = "stream"
    /\ reqBody = NoBody
    /\ bodyParam = 1
    /\ sig = <<[hasDefault |-> FALSE, optional |-> FALSE, present |-> FALSE]>>
    /\ lastParam = [idx |-> 1, source |-> "body", key |-> 0]
    /\ dExc = Raised("BadRequestError")
    /\ bodyRead = 0
    /\ invoked = 0

----------------------------------------------------------------------------
\* Claims on the response of Application._handle (specification SpecRespond)

\* The natural number a string of decimal digits denotes.
DigitVal(c) ==
    CASE c = "0" -> 0 [] c = "1" -> 1 [] c = "2" -> 2 [] c = "3" -> 3
      [] c = "4" -> 4 [] c = "5" -> 5 [] c = "6" -> 6 [] c = "7" -> 7
      [] c = "8" -> 8 [] c = "9" -> 9
RECURSIVE ParseNat(_)
ParseNat(str) ==
    IF Len(str) = 1 THEN DigitVal(str[1])
    ELSE 10 * ParseNat(SubSeq(str, 1, Len(str) - 1)) + DigitVal(str[Len(str)])

\* C25: a response _handle returns has status 204 when the content length of
\* its body is zero, whatever the return type of the operation, and status
\* 200 when that length is not zero or is unknown.
C25_ZeroLength204 ==
    (dpc = "returned") =>
        /\ respBody.length = opResult.length
        /\ respStatus = IF opResult.length.known /\ opResult.length.n = 0
                        THEN 204 ELSE 200

C25_Witness ==
    /\ dpc = "returned"
    /\ opResult.stream
    /\ opResult.length = [known |-> TRUE, n |-> 0]
    /\ respStatus = 204

\* C26 as stated: a response _handle returns has a Content-Type header
\* taken from its body and, whenever the content length of the body is known,
\* a Content-Length header equal to that length.
C26_Original ==
    (dpc = "returned") =>
        /\ "Content-Type" \in DOMAIN respHeaders
        /\ respHeaders["Content-Type"] = opResult.ctype
        /\ opResult.length.known =>
              /\ "Content-Length" \in DOMAIN respHeaders
              /\ ParseNat(respHeaders["Content-Length"]) = opResult.length.n

\* C26, amended: a response _handle returns has a Content-Type header taken
\* from its body; it has a Content-Length header equal to the content length
\* of the body when that length is known and not zero, and no Content-Length
\* header when the length is zero or unknown.
C26_HeadersFromBody ==
    (dpc = "returned") =>
        /\ "Content-Type" \in DOMAIN respHeaders
        /\ respHeaders["Content-Type"] = opResult.ctype
        /\ IF opResult.length.known /\ opResult.length.n # 0
           THEN /\ DOMAIN respHeaders = {"Content-Type", "Content-Length"}
                /\ ParseNat(respHeaders["Content-Length"]) = opResult.length.n
           ELSE DOMAIN respHeaders = {"Content-Type"}

C26_Witness ==
    /\ dpc = "returned"
    /\ ~opResult.stream
    /\ opResult.length = [known |-> TRUE, n |-> 10]
    /\ respHeaders["Content-Type"] = "codec"
    /\ respHeaders["Content-Length"] = <<"1", "0">>
    /\ respStatus = 200

----------------------------------------------------------------------------
\* Claims on handle_error (specification SpecError)

\* The text of a JSON object {"error": <integer>, "detail": <string>}, read
\* back: the digits between the first colon and the comma, and the string
\* between the quotes after the second key, with its escapes undone.
ErrorField(text) ==
    LET from == 11
        to == CHOOSE k \in from..Len(text) :
                  text[k] = "," /\ \A j \in from..(k - 1) : text[j] # ","
    IN ParseNat(SubSeq(text, from, to - 1))
RECURSIVE Unescape(_)
Unescape(str) ==
    IF str = <<>> THEN <<>>
    ELSE IF str[1] # "\\" THEN <<str[1]>> \o Unescape(Tail(str))
    ELSE IF str[2] = "u" THEN <<"U+00E9">> \o Unescape(SubSeq(str, 7, Len(str)))
    ELSE <<str[2]>> \o Unescape(SubSeq(str, 3, Len(str)))
DetailField(text) ==
    LET comma == CHOOSE k \in 1..Len(text) :
                     text[k] = "," /\ \A j \in 1..(k - 1) : text[j] # ","
    IN Unescape(SubSeq(text, comma + 13, Len(text) - 2))

\* C27: handle_error returns, for every error of the taxonomy, a response
\* whose status is the status of the error, whose body is the JSON object
\* with the members error (that status) and detail (the message of the
\* error, or the docstring of its class when it has none) in ASCII, whose
\* Content-Type is application/json and whose Content-Length is the number
\* of bytes of the body.
C27_DefaultErrorResponse ==
    (hpc = "returned") =>
        /\ hresp.status = StatusOf(herr.cls)
        /\ \A k \in 1..Len(hresp.body) : hresp.body[k] \notin {"U+00E9", "0xC3", "0xA9"}
        /\ hresp.body[1] = "{" /\ hresp.body[Len(hresp.body)] = "}"
        /\ SubSeq(hresp.body, 2, 8) = <<"\"", "e", "r", "r", "o", "r", "\"">>
        /\ ErrorField(hresp.body) = hresp.status
        /\ DetailField(hresp.body) = IF herr.args = <<>> THEN <<herr.cls>>
                                     ELSE herr.args[1]
        /\ DOMAIN hresp.headers = {"content-type", "content-length"}
        /\ hresp.headers["content-type"] = "application/json"
        /\ ParseNat(hresp.headers["content-length"]) = Len(hresp.body)

C27_Witness ==
    /\ hpc = "returned"
    /\ herr = [cls |-> "BadRequestError", args |-> <<(<<"a", "U+00E9">>)>>]
    /\ hresp.status = 400
    /\ hresp.headers["content-length"] = <<"3", "5">>
    /\ hresp.body[Len(hresp.body) - 1] = "\""

\* The result of Application.handle for request c when no other call runs,
\* given what its filters and handler do (out of pre, handler and post):
\* the forward loop, ...
RECURSIVE AloneForward(_, _, _, _, _, _)
AloneForward(fs, pre, c, n, resp, rw) ==
    IF n > Len(fs) THEN [resp |-> resp, rw |-> rw, exc |-> NoExc]
    ELSE LET out == pre[n]
             v == IF out \in {"yield_resp", "return_resp"} THEN PreResp(n)
                  ELSE None
         IN IF out = "raise"
            THEN [resp |-> resp, rw |-> rw, exc |-> ConcExc(n)]
            ELSE IF out \in {"yield_resp", "return_resp"}
            THEN [resp |-> Tag(c, v), rw |-> rw, exc |-> NoExc]
            ELSE AloneForward(fs, pre, c, n + 1, CNone,
                              IF out = "yield_none"
                              THEN Append(rw, n) ELSE rw)

\* ... the loop over the rewind list, last entry first, ...
RECURSIVE AloneBackward(_, _, _, _, _)
AloneBackward(post, c, rw, k, resp) ==
    IF k > Len(rw) THEN [resp |-> resp, exc |-> NoExc]
    ELSE LET n == rw[Len(rw) + 1 - k]
             out == post[k]
         IN IF out = "raise" THEN [resp |-> resp, exc |-> ConcExc(n)]
            ELSE AloneBackward(post, c, rw, k + 1,
                               IF out = "yield_resp" THEN Tag(c, PostResp(n))
                               ELSE resp)

\* ... and the handler between them, an exception being answered by the
\* error handler.
RunAlone(fs, plan, c) ==
    LET fwd == AloneForward(fs, plan.pre, c, 1, CNone, <<>>)
        mid == IF fwd.exc # NoExc \/ fwd.resp # CNone
               THEN [resp |-> fwd.resp, exc |-> fwd.exc]
               ELSE IF plan.handler = "raise"
               THEN [resp |-> CNone, exc |-> ConcExc(0)]
               ELSE [resp |-> Tag(c, HandlerResp), exc |-> NoExc]
        bwd == IF mid.exc # NoExc THEN mid
               ELSE AloneBackward(plan.post, c, fwd.rw, 1, mid.resp)
    IN IF bwd.exc # NoExc
       THEN Tag(c, ErrorResponse(IF bwd.exc.cls \in Taxonomy THEN bwd.exc
                                 ELSE Exc("InternalServerError", 0,
                                          bwd.exc.cls, bwd.exc.nargs, 0)))
       ELSE bwd.resp

\* The filter instances on the rewind list of call c.
RewindSet(c) == {crewind[c][k] : k \in 1..Len(crewind[c])}

\* C28: in every interleaving of two concurrent calls of Application.handle
\* on one application, the filter instances on a call's rewind list are
\* those created for its own request and no instance is on both lists, a
\* filter instance is resumed only with a response produced for its own
\* request, and the result of a call that finished is the result the same
\* call produces when it runs alone.
C28_CallsIndependent ==
    /\ \A c \in Calls : \A inst \in RewindSet(c) : inst.req = c
    /\ RewindSet(1) \cap RewindSet(2) = {}
    /\ \A f \in cfed : f.resp.req = f.inst.req
    /\ \A c \in Calls :
         cpc[c] = "done" => cresult[c] = RunAlone(cfilters, cplan[c], c)

\* Call 2 resumed its filters and returned while the filters of call 1 were
\* suspended, and call 1 then resumed its own with its own response.
C28_Witness ==
    /\ cfilters = <<"asyncgen", "asyncgen">>
    /\ cpc[2] = "done"
    /\ cresult[2] = Tag(2, PostResp(1))
    /\ cpc[1] = "rewind"
    /\ cr[1] = 1
    /\ Len(crewind[1]) = 2
    /\ cresp[1] = Tag(1, PostResp(2))
    /\ [inst |-> Instance(1, 2), resp |-> Tag(1, HandlerResp)] \in cfed
    /\ [inst |-> Instance(2, 2), resp |-> Tag(2, HandlerResp)] \in cfed

\* The two-phase filters on the rewind list that are still suspended at a
\* yield: never resumed, or resumed and suspended again at a further yield.
LeftSuspended ==
    {n \in DOMAIN filters :
        /\ \E k \in 1..Len(rewind) : rewind[k] = n
        /\ postOut[n] \in {"-", "yield_none", "yield_resp"}}

\* C29: whenever Chain.handle has finished, by returning a response or by an
\* error from a filter or the handler, no two-phase filter that entered the
\* rewind list is left suspended: each has been resumed to completion or
\* closed.
C29_Original == ChainFinished => LeftSuspended = {}

\* The function has a parameter *args or **kwargs.
HasVariadic(f) ==
    \E k \in DOMAIN f.params :
        f.params[k] = "VAR_POSITIONAL" \/ f.params[k] = "VAR_KEYWORD"

\* C30: a function that has a variadic positional or a variadic keyword
\* parameter, or that is not a coroutine function, is rejected by the
\* decorator operation with TypeError when it is decorated; it never
\* carries the operation marker and the decorator never returns an
\* operation for it.
C30_RejectedAtDecoration ==
    (HasVariadic(fn) \/ fn.kind # "coroutine") =>
        /\ fmarker = "-"
        /\ fpc # "returned"
        /\ ~IsOperationResult
        /\ fpc \notin {"idle", "partial"} =>
             /\ fpc = "raised"
             /\ fexc.cls = "TypeError"

\* A coroutine function whose only variadic parameter is **kwargs was
\* decorated with options and rejected.
C30_Witness ==
    /\ fn.kind = "coroutine"
    /\ fn.params = <<"POSITIONAL_OR_KEYWORD", "VAR_KEYWORD">>
    /\ ~fn.bare
    /\ fpc = "raised"
    /\ fexc = TypeErrorOf("operation with **kwargs is not supported")
    /\ fmarker = "-"

----------------------------------------------------------------------------
\* Claims on container resources (specification SpecTree)

\* The resource the mappings give for a path from a resource: NoneObj when
\* a name is not in the mapping of the container reached, or when what is
\* reached is no container.
RECURSIVE MapResolve(_, _, _)
MapResolve(obj, path, k) ==
    IF k > Len(path) THEN obj
    ELSE IF obj.kind = "container" /\ path[k] \in DOMAIN obj.map
    THEN MapResolve(obj.map[path[k]], path, k + 1)
    ELSE NoneObj

\* The walk has ended: in an exception or with the operation found.
TreeFinished == tpc \in {"raised", "operation"}

\* C31 as stated: a container resolves a name to exactly the resource
\* mapped to it, through any depth of nested containers, and the operations
\* of the resource reached are recognised as operations; a name that is not
\* in the mapping resolves to no subordinate, so a path naming it fails
\* with NotFoundError.
C31_Original ==
    TreeFinished =>
        LET mapped == MapResolve(troot, tpath, 1)
        IN IF mapped = NoneObj
           THEN texc = "NotFoundError"
           ELSE /\ tcur = mapped
                /\ texc # "NotFoundError"
                /\ (mapped.kind = "leaf" /\ tmethod \in LeafOps(mapped.id)) =>
                      tpc = "operation"

----------------------------------------------------------------------------
\* Claims on inner resources (specification SpecInner)

InnerFinished(route) == ipc[route] \in {"returned", "raised"}

\* C32: for an inner resource made by query or mutation, calling the inner
\* resource itself and calling its named operation method run the same
\* operation and end with the same result, and the decorated method runs
\* bound to the outer instance on which the inner resource was accessed.
C32_CallIsMethod ==
    /\ \A route \in Routes :
         /\ ipc[route] \in {"proxy", "returned", "raised"} => iran[route] = "proxy"
         /\ (InnerFinished(route) /\ idecl.security # "unauthorized") =>
               iself[route] = iouter
         /\ ipc[route] = "returned" => iret[route].value = <<"i_am", iouter>>
    /\ (InnerFinished("call") /\ InnerFinished("method")) =>
         /\ iran["call"] = iran["method"]
         /\ iret["call"] = iret["method"]
         /\ ipc["call"] = ipc["method"]

\* Both calls of a mutation with method name put returned, on the instance
\* r1b.
C32_Witness ==
    /\ idecl = [deco |-> "mutation", method |-> "put", security |-> "granted",
                body |-> "return"]
    /\ iouter = "r1b"
    /\ ipc = [route \in Routes |-> "returned"]
    /\ iret["call"] = [exc |-> "None", value |-> <<"i_am", "r1b">>]
    /\ iself["method"] = "r1b"

----------------------------------------------------------------------------
\* Claims on the order of binding, authorization and operation body
\* (specification SpecPipeline)

\* Every parameter of the operation has been bound.
AllBound == DOMAIN params = 1..Len(sig)

\* authorize has been entered for the request.
AuthBegun == apc # "idle" \/ evaluated # <<>>

\* C33: in the dispatcher the binding and validation of every parameter is
\* complete before authorization is evaluated, and authorization is
\* complete before the body of the operation runs; a request that fails
\* in parameter binding ends in BadRequestError with no security
\* requirement evaluated.
C33_BindAuthorizeRun ==
    /\ (AuthBegun \/ opc # "idle") =>
          /\ AllBound
          /\ callArgs = params
          /\ dMsg = NoMsg
          /\ invoked = 1
    /\ bodyRuns > 0 =>
          /\ apc = "granted"
          /\ bodyRuns = 1
          /\ AllBound
    /\ dMsg # NoMsg =>
          /\ dpc = "raised"
          /\ dExc = Raised("BadRequestError")
          /\ ~AuthBegun
          /\ opc = "idle"
          /\ bodyRuns = 0

\* A request whose only parameter has no value and no default ended in
\* BadRequestError although the operation has three security requirements,
\* none of which was evaluated.
C33_Witness ==
    /\ sig = <<[hasDefault |-> FALSE, optional |-> FALSE, present |-> FALSE]>>
    /\ Len(Requirements(security)) = MaxReqs
    /\ dpc = "raised"
    /\ dExc = Raised("BadRequestError")
    /\ dMsg.text = "expecting value"
    /\ evaluated = <<>>
    /\ bodyRuns = 0

----------------------------------------------------------------------------
\* Claims on the request seen by filters and handler (specification Spec)

\* The changes made to the request by the pre-phases of the filters before
\* filter n.
ChangesBefore(n) == SelectSeq(request, LAMBDA m : m < n)

\* C34: a filter is instantiated only after the pre-phase of every earlier
\* filter has completed, so each filter, and the terminal handler, is given
\* the request with all the changes the pre-phases of the filters before it
\* made.
C34_SeesEarlierMutations ==
    /\ \A n \in instantiated :
         /\ \A m \in 1..(n - 1) : m \in instantiated /\ preOut[m] # "-"
         /\ n \in DOMAIN seenAt
         /\ seenAt[n] = ChangesBefore(n)
    /\ handlerCalls > 0 =>
         /\ 0 \in DOMAIN seenAt
         /\ seenAt[0] = request
         /\ \A m \in 1..Len(request) : preOut[request[m]] # "-"

\* The third filter was given the request as changed by the first and the
\* second, and the handler the request as changed by all three.
C34_Witness ==
    /\ Len(filters) = 3
    /\ filters[1] = "asyncgen"
    /\ filters[2] = "coroutine"
    /\ handlerCalls = 1
    /\ seenAt[2] = <<1>>
    /\ seenAt[3] = <<1, 2>>
    /\ seenAt[0] = <<1, 2, 3>>

\* The terminal handler was awaited and raised.
HandlerRaised ==
    \E k \in 1..Len(log) : log[k].ev = "handler" /\ log[k].out = "raise"

\* C35 as stated: if the terminal handler raises, no two-phase filter on the
\* rewind list is resumed, and the response of the application's error
\* handler for that error is returned to the caller, no filter's post-phase
\* having been given it.
C35_Original ==
    HandlerRaised =>
        /\ ResumeLog = <<>>
        /\ \A n \in DOMAIN fed : fed[n] = None
        /\ AppFinished =>
              /\ raised = NoExc
              /\ errHandled = <<Wrap(chainExc)>>
              /\ result = ErrorResponse(Wrap(chainExc))

----------------------------------------------------------------------------
\* Claims on Application.handle with the dispatcher as handler
\* (specification SpecHandle)

\* The operation returned a value that is not valid for its declared return
\* type.
ReturnedInvalid == dRet = "value" /\ ~opResult.valid

\* C36: when the value an operation returned fails validation against the
\* declared return type, no success response is produced and the caller
\* receives InternalServerError, not BadRequestError, although the body of
\* the operation has run.
C36_InvalidReturnInternalError ==
    (ReturnedInvalid /\ dpc # "op_returned") =>
        /\ invoked = 1
        /\ dpc = "raised"
        /\ ~IsError(dExc)
        /\ respBody = NoRespBody /\ respHeaders = <<>> /\ respStatus = 200
        /\ chainRet = None
        /\ pc \in {"app_except", "done", "raised"} =>
              /\ err.cls = "InternalServerError"
              /\ err.cause = dExc.cls
        /\ AppFinished =>
              /\ raised = NoExc
              /\ errHandled = <<err>>
              /\ result = ErrorResponse(err)
              /\ result.err.cls = "InternalServerError"

\* A GET of the root resource whose operation returned an invalid value of a
\* type that is no Stream was answered by the error handler.
C36_Witness ==
    /\ path0 = <<"/">>
    /\ reqMethod = <<"G", "E", "T">>
    /\ ~opResult.valid /\ ~opResult.stream
    /\ invoked = 1
    /\ pc = "done"
    /\ result.by = "error_handler"
    /\ result.err.cls = "InternalServerError"
    /\ result.err.cause = "ValueError"

\* C37 as stated: dispatch does not modify the request: when
\* Application.handle has returned, request.path is the path the terminal
\* handler received, and a second call with the same request object passes
\* the prefix test exactly if the first did.
C37_Original ==
    (AppFinished /\ handlerCalls = 1) =>
        /\ reqPath = path0
        /\ StartsWith(reqPath, MountPath(mount))
              <=> StartsWith(path0, MountPath(mount))

\* C38 as stated: a Chain with zero filters, constructed with an empty
\* sequence or with the filters argument omitted, invokes the handler
\* exactly once when it handles a request, and returns the handler's
\* response unchanged.
C38_Original ==
    (Len(filters) = 0 /\ pc \in {"done", "chain_raised"}) =>
        /\ handlerCalls = 1
        /\ pc = "done" => chainRet = HandlerResp
        /\ pc = "chain_raised" => log[Len(log)].ev = "handler"

====
